---- MODULE Spec2Model ----
(***************************************************************************)
(* Model of the GLiNER entity-extraction service                           *)
(* (src/services/gliner_service): configuration loading (config.py), the   *)
(* response models' validation (models.py) and the extractor's pipeline    *)
(* (extractor.py): result normalisation, domain classification, preset     *)
(* merging, batch extraction with sequential fallback and the auto-domain  *)
(* pipeline.                                                               *)
(*                                                                         *)
(* Conventions.                                                            *)
(*  - A Python dict is a function whose DOMAIN is the set of keys present; *)
(*    a dict whose iteration order matters is a sequence of <<key, value>> *)
(*    pairs (Python dicts iterate in insertion order).                     *)
(*  - Optional[T] is a sequence of length 0 (None) or 1 (<<value>>).       *)
(*  - isinstance() tests are tests of a "kind" tag.                        *)
(*  - A confidence is a fixed-point number in units of 1/ConfScale.        *)
(*  - A call that raises yields a record with raised = TRUE.               *)
(***************************************************************************)
EXTENDS Integers, Sequences, FiniteSets, TLC

\* ----------------------------------------------------------------- bounds
\* Longest list of texts passed to a batch operation.
MaxTexts == 2
\* Largest batch_size passed to a batch operation.
MaxBatchSize == 2
\* Longest list of domain names passed to get_preset_schema.
MaxDomainList == 2
\* Largest number of reload_config calls.
MaxReloads == 1
\* Number of concurrent first users of the extractor.
MaxUsers == 2

\* ------------------------------------------------------------ python glue
None == <<>>
Some(v) == <<v>>
IsNone(o) == o = <<>>
Val(o) == o[1]

\* d.get(k, default)
Get(d, k, default) == IF k \in DOMAIN d THEN d[k] ELSE default
\* d.get(k), as an Optional
GetOpt(d, k) == IF k \in DOMAIN d THEN Some(d[k]) ELSE None
\* d.get(k1, d.get(k2)), as an Optional
GetOpt2(d, k1, k2) == IF k1 \in DOMAIN d THEN Some(d[k1]) ELSE GetOpt(d, k2)
\* a.update(b) on dicts: keys of b overwrite those of a
DictUpdate(a, b) ==
    [k \in (DOMAIN a) \cup (DOMAIN b) |-> IF k \in DOMAIN b THEN b[k] ELSE a[k]]
EmptyDict == <<>>

Min(a, b) == IF a <= b THEN a ELSE b

\* All sequences over S of length at most n.
SeqsUpTo(S, n) == UNION {[1..k -> S] : k \in 0..n}

RECURSIVE Concat(_)
\* The concatenation of a sequence of sequences.
Concat(ss) == IF ss = <<>> THEN <<>> ELSE Head(ss) \o Concat(Tail(ss))

\* --------------------------------------------------------------- config.py
\* A YAML document is a dict; a domain's configuration is tagged with its
\* kind ("dict" for a mapping, "scalar" for anything else), and the "domains"
\* mapping keeps its order.  entity_types (a list or a dict of descriptions)
\* is modelled by its set of type names.
DictCfg(f) == [kind |-> "dict", f |-> f]
ScalarCfg == [kind |-> "scalar"]

\* Two domains with presets, no "defaults" section.
YamlTypical ==
    [domains |-> <<
        <<"legal", DictCfg([description |-> "Legal contracts",
                            entity_types |-> {"party", "clause"},
                            relation_types |-> [binds |-> "party bound by clause"]])>>,
        <<"code", DictCfg([entity_types |-> {"function", "class"},
                           relation_types |-> [calls |-> "function calls function"]])>> >>]

\* A disabled domain, a domain without entity types, a non-mapping entry and
\* a "defaults" section with no entity types.
YamlEdge ==
    [domains |-> <<
        <<"legal", DictCfg([enabled |-> FALSE,
                            entity_types |-> {"party"},
                            relation_types |-> [binds |-> "party bound by clause"]])>>,
        <<"code", DictCfg([relation_types |-> [calls |-> "function calls function"]])>>,
        <<"notes", ScalarCfg>> >>,
     defaults |-> [entity_types |-> {}, relation_types |-> EmptyDict]]

\* Two domains describing the same relation name differently, and a
\* "defaults" section that sets only the entity types.
YamlOverlap ==
    [domains |-> <<
        <<"legal", DictCfg([entity_types |-> {"party", "person"},
                            relation_types |-> [uses |-> "party uses clause"]])>>,
        <<"code", DictCfg([entity_types |-> {"function"},
                           relation_types |-> [uses |-> "function uses class",
                                               calls |-> "function calls function"]])>> >>,
     defaults |-> [entity_types |-> {"person"}]]

\* A domain that the file names "default", beside another one.
YamlDefaultNamed ==
    [domains |-> <<
        <<"default", DictCfg([entity_types |-> {"term"},
                              relation_types |-> [defines |-> "term defines term"]])>>,
        <<"legal", DictCfg([entity_types |-> {"party"}])>> >>]

\* The file is missing or unreadable: load_yaml_config returns {}.
YamlMissing == EmptyDict

YamlConfigs == {YamlTypical, YamlEdge, YamlOverlap, YamlDefaultNamed, YamlMissing}

\* load_yaml_config: the parsed document (the file's content is the input).
load_yaml_config(doc) == doc

\* build_domain_presets: one preset per mapping-valued domain, in file order.
build_domain_presets(yaml_config) ==
    LET domains == Get(yaml_config, "domains", <<>>)
        isDict(p) == p[2].kind = "dict"
        preset(p) ==
            <<p[1], [enabled |-> Get(p[2].f, "enabled", TRUE),
                     entity_types |-> Get(p[2].f, "entity_types", {}),
                     relation_types |-> Get(p[2].f, "relation_types", EmptyDict)]>>
        kept == SelectSeq(domains, isDict)
    IN  [i \in 1..Len(kept) |-> preset(kept[i])]

\* f"Content related to {domain_name}"
DefaultDescription(domain_name) ==
    CASE domain_name = "legal" -> "Content related to legal"
      [] domain_name = "code" -> "Content related to code"
      [] OTHER -> "Content related to notes"

\* build_classification_schema: {"domains": {name: description}}, in file order.
build_classification_schema(yaml_config) ==
    LET domains == Get(yaml_config, "domains", <<>>)
        isDict(p) == p[2].kind = "dict"
        kept == SelectSeq(domains, isDict)
    IN  [domains |->
            [i \in 1..Len(kept) |->
                <<kept[i][1], Get(kept[i][2].f, "description", DefaultDescription(kept[i][1]))>>]]

\* The built-in defaults of get_defaults_from_yaml.
BuiltinEntityTypes ==
    {"person", "organization", "location", "technology", "product", "date"}
BuiltinRelationTypes ==
    [works_for |-> "person works for organization",
     located_in |-> "entity is located in location",
     created_by |-> "product/technology created by person/organization",
     uses |-> "organization/person uses technology"]

\* get_defaults_from_yaml: <<entity_types, relation_types>>.
get_defaults_from_yaml(yaml_config) ==
    LET defaults == Get(yaml_config, "defaults", EmptyDict)
    IN  <<Get(defaults, "entity_types", BuiltinEntityTypes),
          Get(defaults, "relation_types", BuiltinRelationTypes)>>

\* ---------------------------------------------------------------- models.py
\* 1.0 in confidence units.  A multiple of every keyword-list length of the
\* heuristic classifier (9, 10, 13, 14) and of 2, so that every score the
\* code computes is a whole number of units.
ConfScale == 2 * 7 * 9 * 10 * 13

\* A confidence field declared without its ge=0, le=1 bounds: every value
\* validates.
ConfidenceUnbounded(confidence) == TRUE

\* Field(None, ge=0, le=1) on ExtractedEntity.confidence and
\* ExtractedRelation.confidence.
ConfidenceValid(confidence) ==
    IsNone(confidence) \/ (0 <= Val(confidence) /\ Val(confidence) <= ConfScale)

\* span: tuple[int, int] | None.  The argument is None or a pair of
\* Optionals (item.get("start"), item.get("end")).
SpanValid(span) ==
    IsNone(span) \/ (~IsNone(Val(span)[1]) /\ ~IsNone(Val(span)[2]))

\* ExtractedEntity(name=..., type=..., confidence=..., span=...): the
\* validated model, or a ValidationError.
ExtractedEntity(name, type, confidence, span) ==
    IF ConfidenceValid(confidence) /\ SpanValid(span)
    THEN [raised |-> FALSE,
          v |-> [name |-> name, type |-> type, confidence |-> confidence,
                 span |-> IF IsNone(span) THEN None
                          ELSE Some(<<Val(Val(span)[1]), Val(Val(span)[2])>>)]]
    ELSE [raised |-> TRUE]

\* ExtractedRelation(subject=..., predicate=..., object=..., confidence=...).
ExtractedRelation(subject, predicate, object, confidence) ==
    IF ConfidenceValid(confidence)
    THEN [raised |-> FALSE,
          v |-> [subject |-> subject, predicate |-> predicate,
                 object |-> object, confidence |-> confidence]]
    ELSE [raised |-> TRUE]

\* ------------------------------------------------- raw results (GLiNER2)
\* The values found in a raw result, tagged with their Python type.
DictHit(f) == [kind |-> "dict", f |-> f]
StrHit(s) == [kind |-> "str", s |-> s]
TupleHit(items) == [kind |-> "tuple", items |-> items]
NumVal(v) == [kind |-> "num", v |-> v]
NoneVal == [kind |-> "none"]
ListOf(items) == [kind |-> "list", items |-> items]
NotAList == [kind |-> "other"]

\* n tenths, in confidence units.
Tenths(n) == n * (ConfScale \div 10)

\* str(x): a string is itself, anything else its repr.
str(x) ==
    CASE x.kind = "str" -> x.s
      [] x.kind = "dict" -> "{...}"
      [] x.kind = "tuple" -> "(...)"
      [] OTHER -> "repr"

\* The (type, hit) pairs of a type -> hit-list mapping, in iteration order;
\* a value that is not a list contributes nothing.
HitsOf(mapping) ==
    Concat([i \in 1..Len(mapping) |->
        IF mapping[i][2].kind = "list"
        THEN [j \in 1..Len(mapping[i][2].items) |-> <<mapping[i][1], mapping[i][2].items[j]>>]
        ELSE <<>>])

\* -------------------------------------- extractor.py: result normalisation
\* The entity confidence read from "confidence" before "score".
parse_entity_confidence_first(entity_type, item, include_confidence, include_spans) ==
    IF item.kind = "dict"
    THEN ExtractedEntity(
            Get(item.f, "text", Get(item.f, "name", str(item))),
            entity_type,
            IF include_confidence THEN GetOpt2(item.f, "confidence", "score") ELSE None,
            IF include_spans /\ "start" \in DOMAIN item.f
            THEN Some(<<GetOpt(item.f, "start"), GetOpt(item.f, "end")>>)
            ELSE None)
    ELSE ExtractedEntity(str(item), entity_type, None, None)

\* _parse_extraction_result, lines 450-467: one ExtractedEntity per hit.
parse_entity(entity_type, item, include_confidence, include_spans) ==
    IF item.kind = "dict"
    THEN ExtractedEntity(
            Get(item.f, "text", Get(item.f, "name", str(item))),
            entity_type,
            IF include_confidence THEN GetOpt2(item.f, "score", "confidence") ELSE None,
            IF include_spans /\ "start" \in DOMAIN item.f
            THEN Some(<<GetOpt(item.f, "start"), GetOpt(item.f, "end")>>)
            ELSE None)
    ELSE ExtractedEntity(str(item), entity_type, None, None)

\* _parse_extraction_result.extract_entity_text, lines 474-478.
parse_extract_entity_text(entity) ==
    IF entity.kind = "dict"
    THEN Get(entity.f, "text", Get(entity.f, "name", str(entity)))
    ELSE str(entity)

\* _parse_extraction_result.extract_entity_confidence, lines 480-484.
parse_extract_entity_confidence(entity) ==
    IF entity.kind = "dict" THEN GetOpt2(entity.f, "confidence", "score") ELSE None

\* The relation hits the loop of lines 486-516 turns into relations: tuples
\* of at least two items, and dicts.  Anything else is skipped.
parse_relation_kept(pair) ==
    \/ pair[2].kind = "tuple" /\ Len(pair[2].items) >= 2
    \/ pair[2].kind = "dict"

\* The tuple branch with its two tests in the other order: the mean of the
\* endpoint confidences is preferred to the third element.
parse_relation_mean_first(relation_type, item, include_confidence) ==
    IF item.kind = "tuple"
    THEN LET subj_conf == parse_extract_entity_confidence(item.items[1])
             obj_conf == parse_extract_entity_confidence(item.items[2])
             rel_confidence ==
                 IF ~include_confidence THEN None
                 ELSE IF ~IsNone(subj_conf) /\ ~IsNone(obj_conf)
                      THEN Some((Val(subj_conf) + Val(obj_conf)) \div 2)
                      ELSE IF Len(item.items) > 2 /\ item.items[3].kind # "none"
                           THEN Some(item.items[3].v)
                           ELSE None
         IN  ExtractedRelation(parse_extract_entity_text(item.items[1]),
                               relation_type,
                               parse_extract_entity_text(item.items[2]),
                               rel_confidence)
    ELSE ExtractedRelation(
            parse_extract_entity_text(Get(item.f, "subject", Get(item.f, "head", StrHit("")))),
            relation_type,
            parse_extract_entity_text(Get(item.f, "object", Get(item.f, "tail", StrHit("")))),
            IF include_confidence THEN GetOpt2(item.f, "score", "confidence") ELSE None)

\* _parse_extraction_result, lines 489-516: one ExtractedRelation per kept hit.
parse_relation(relation_type, item, include_confidence) ==
    IF item.kind = "tuple"
    THEN LET subj_conf == parse_extract_entity_confidence(item.items[1])
             obj_conf == parse_extract_entity_confidence(item.items[2])
             rel_confidence ==
                 IF ~include_confidence THEN None
                 ELSE IF Len(item.items) > 2 /\ item.items[3].kind # "none"
                      THEN Some(item.items[3].v)
                      ELSE IF ~IsNone(subj_conf) /\ ~IsNone(obj_conf)
                           THEN Some((Val(subj_conf) + Val(obj_conf)) \div 2)
                           ELSE None
         IN  ExtractedRelation(parse_extract_entity_text(item.items[1]),
                               relation_type,
                               parse_extract_entity_text(item.items[2]),
                               rel_confidence)
    ELSE ExtractedRelation(
            parse_extract_entity_text(Get(item.f, "subject", Get(item.f, "head", StrHit("")))),
            relation_type,
            parse_extract_entity_text(Get(item.f, "object", Get(item.f, "tail", StrHit("")))),
            IF include_confidence THEN GetOpt2(item.f, "score", "confidence") ELSE None)

\* The entity loop with its else branch missing: a hit that is not a dict
\* is left out.
_parse_extraction_result_dicts_only(raw_result, include_confidence, include_spans) ==
    LET hits == SelectSeq(HitsOf(Get(raw_result, "entities", <<>>)),
                          LAMBDA h : h[2].kind = "dict")
        entities == [i \in 1..Len(hits) |->
            parse_entity(hits[i][1], hits[i][2], include_confidence, include_spans)]
        rhits == SelectSeq(HitsOf(Get(raw_result, "relation_extraction", <<>>)),
                           parse_relation_kept)
        relations == [i \in 1..Len(rhits) |->
            parse_relation(rhits[i][1], rhits[i][2], include_confidence)]
    IN  IF \/ \E i \in 1..Len(entities) : entities[i].raised
           \/ \E i \in 1..Len(relations) : relations[i].raised
        THEN [raised |-> TRUE]
        ELSE [raised |-> FALSE,
              v |-> [of |-> raw_result.of,
                     entities |-> [i \in 1..Len(entities) |-> entities[i].v],
                     relations |-> [i \in 1..Len(relations) |-> relations[i].v]]]

\* _parse_extraction_result: the ExtractionResult of a raw result, or the
\* ValidationError of the first model that rejects its fields.  "of" is a
\* ghost field: the text the raw result was produced for.
_parse_extraction_result(raw_result, include_confidence, include_spans) ==
    LET hits == HitsOf(Get(raw_result, "entities", <<>>))
        entities == [i \in 1..Len(hits) |->
            parse_entity(hits[i][1], hits[i][2], include_confidence, include_spans)]
        rhits == SelectSeq(HitsOf(Get(raw_result, "relation_extraction", <<>>)),
                           parse_relation_kept)
        relations == [i \in 1..Len(rhits) |->
            parse_relation(rhits[i][1], rhits[i][2], include_confidence)]
    IN  IF \/ \E i \in 1..Len(entities) : entities[i].raised
           \/ \E i \in 1..Len(relations) : relations[i].raised
        THEN [raised |-> TRUE]
        ELSE [raised |-> FALSE,
              v |-> [of |-> raw_result.of,
                     entities |-> [i \in 1..Len(entities) |-> entities[i].v],
                     relations |-> [i \in 1..Len(relations) |-> relations[i].v]]]

\* extract, lines 101-120: one ExtractedEntity per hit.
extract_entity(entity_type, item, include_confidence, include_spans) ==
    IF item.kind = "dict"
    THEN ExtractedEntity(
            Get(item.f, "text", Get(item.f, "name", str(item))),
            entity_type,
            IF include_confidence THEN GetOpt2(item.f, "score", "confidence") ELSE None,
            IF include_spans /\ "start" \in DOMAIN item.f
            THEN Some(<<GetOpt(item.f, "start"), GetOpt(item.f, "end")>>)
            ELSE None)
    ELSE ExtractedEntity(str(item), entity_type, None, None)

\* extract.extract_entity_text, lines 128-132.
extract_entity_text(entity) ==
    IF entity.kind = "dict"
    THEN Get(entity.f, "text", Get(entity.f, "name", str(entity)))
    ELSE str(entity)

\* extract.extract_entity_confidence, lines 134-138.
extract_entity_confidence(entity) ==
    IF entity.kind = "dict" THEN GetOpt2(entity.f, "confidence", "score") ELSE None

\* The relation hits the loop of lines 140-171 turns into relations.
extract_relation_kept(pair) ==
    \/ pair[2].kind = "tuple" /\ Len(pair[2].items) >= 2
    \/ pair[2].kind = "dict"

\* extract, lines 143-171: one ExtractedRelation per kept hit.
extract_relation(relation_type, item, include_confidence) ==
    IF item.kind = "tuple"
    THEN LET subj_conf == extract_entity_confidence(item.items[1])
             obj_conf == extract_entity_confidence(item.items[2])
             rel_confidence ==
                 IF ~include_confidence THEN None
                 ELSE IF Len(item.items) > 2 /\ item.items[3].kind # "none"
                      THEN Some(item.items[3].v)
                      ELSE IF ~IsNone(subj_conf) /\ ~IsNone(obj_conf)
                           THEN Some((Val(subj_conf) + Val(obj_conf)) \div 2)
                           ELSE None
         IN  ExtractedRelation(extract_entity_text(item.items[1]),
                               relation_type,
                               extract_entity_text(item.items[2]),
                               rel_confidence)
    ELSE ExtractedRelation(
            extract_entity_text(Get(item.f, "subject", Get(item.f, "head", StrHit("")))),
            relation_type,
            extract_entity_text(Get(item.f, "object", Get(item.f, "tail", StrHit("")))),
            IF include_confidence THEN GetOpt2(item.f, "score", "confidence") ELSE None)

\* extract, lines 96-178: the normalisation extract does inline.
extract_normalize(raw_result, include_confidence, include_spans) ==
    LET hits == HitsOf(Get(raw_result, "entities", <<>>))
        entities == [i \in 1..Len(hits) |->
            extract_entity(hits[i][1], hits[i][2], include_confidence, include_spans)]
        rhits == SelectSeq(HitsOf(Get(raw_result, "relation_extraction", <<>>)),
                           extract_relation_kept)
        relations == [i \in 1..Len(rhits) |->
            extract_relation(rhits[i][1], rhits[i][2], include_confidence)]
    IN  IF \/ \E i \in 1..Len(entities) : entities[i].raised
           \/ \E i \in 1..Len(relations) : relations[i].raised
        THEN [raised |-> TRUE]
        ELSE [raised |-> FALSE,
              v |-> [of |-> raw_result.of,
                     entities |-> [i \in 1..Len(entities) |-> entities[i].v],
                     relations |-> [i \in 1..Len(relations) |-> relations[i].v]]]

\* ------------------------------------------ the capability (GLiNER2 model)
\* The texts submitted.  The capability is a function of the text: each
\* text stands for one way the capability can answer.
Texts == {"t_ok", "t_hot", "t_bad", "t_err"}

\* A well-formed raw result with every hit shape the normaliser knows.
RawRich(text) ==
    [of |-> text,
     entities |-> <<
        <<"person", ListOf(<<
            DictHit([text |-> "Jane Smith", name |-> "J. Smith", score |-> Tenths(8),
                     confidence |-> Tenths(2), start |-> 12, end |-> 22]),
            StrHit("Bob")>>)>>,
        <<"organization", ListOf(<<
            DictHit([name |-> "Apple", confidence |-> Tenths(6)]),
            DictHit([score |-> Tenths(4)])>>)>>,
        <<"date", NotAList>> >>,
     relation_extraction |-> <<
        <<"works_for", ListOf(<<
            TupleHit(<<StrHit("Jane Smith"), StrHit("Apple")>>),
            TupleHit(<<DictHit([text |-> "Jane Smith", confidence |-> Tenths(8)]),
                       DictHit([name |-> "Apple", score |-> Tenths(6)])>>),
            TupleHit(<<StrHit("Bob"), StrHit("Apple"), NumVal(Tenths(4))>>),
            TupleHit(<<DictHit([text |-> "Eve", confidence |-> Tenths(8)]),
                       DictHit([text |-> "Apple", confidence |-> Tenths(6)]),
                       NumVal(Tenths(2))>>),
            TupleHit(<<DictHit([text |-> "Bob", confidence |-> Tenths(2)]),
                       DictHit([text |-> "Apple", confidence |-> Tenths(4)]), NoneVal>>),
            DictHit([head |-> StrHit("Jane Smith"), tail |-> DictHit([text |-> "Apple"]),
                     confidence |-> Tenths(6)]),
            TupleHit(<<StrHit("alone")>>),
            StrHit("junk")>>)>>,
        <<"uses", NotAList>> >>]

\* A small well-formed raw result.
RawPlain(text) ==
    [of |-> text,
     entities |-> << <<"person", ListOf(<<DictHit([text |-> "Ann", score |-> Tenths(10)])>>)>> >>,
     relation_extraction |-> <<>>]

\* An entity hit whose score is above 1.
RawHot(text) ==
    [of |-> text,
     entities |-> << <<"person", ListOf(<<DictHit([text |-> "Ann", score |-> Tenths(12)])>>)>> >>,
     relation_extraction |-> <<>>]

\* An entity hit whose score is above 1 and a relation whose endpoint
\* confidences average below 0.
RawBad(text) ==
    [of |-> text,
     entities |-> << <<"person", ListOf(<<DictHit([text |-> "Ann", score |-> Tenths(12)])>>)>> >>,
     relation_extraction |-> <<
        <<"uses", ListOf(<<
            TupleHit(<<DictHit([text |-> "Ann", score |-> 0 - Tenths(4)]),
                       DictHit([text |-> "vim", score |-> Tenths(2)])>>)>>)>> >>]

\* An entity hit with a start offset and no end offset.
RawHalfSpan(text) ==
    [of |-> text,
     entities |-> << <<"person", ListOf(<<DictHit([text |-> "Ann", start |-> 3])>>)>> >>]

\* self.model.extract(text, schema, include_confidence=...), line 90: the raw
\* result, or an exception.
model_extract(text) ==
    CASE text = "t_ok" -> [raised |-> FALSE, raw |-> RawRich(text)]
      [] text = "t_hot" -> [raised |-> FALSE, raw |-> RawPlain(text)]
      [] text = "t_bad" -> [raised |-> FALSE, raw |-> RawBad(text)]
      [] OTHER -> [raised |-> TRUE]

\* self.model.batch_extract(batch, schema, include_confidence=...), line 408,
\* when it returns: one raw result per text of the batch, in order.
model_batch_extract(batch) ==
    [j \in 1..Len(batch) |->
        CASE batch[j] = "t_ok" -> RawRich(batch[j])
          [] batch[j] = "t_hot" -> RawHot(batch[j])
          [] batch[j] = "t_bad" -> RawBad(batch[j])
          [] OTHER -> RawHalfSpan(batch[j])]

\* The "domains" hits the classifier has for a text, before its threshold.
ClassifierHits(text) ==
    CASE text = "t_ok" -> <<DictHit([label |-> "legal", confidence |-> Tenths(8)]),
                            DictHit([label |-> "code", score |-> Tenths(4)])>>
      [] text = "t_hot" -> <<DictHit([label |-> "code", confidence |-> Tenths(8),
                                      score |-> Tenths(2)]),
                             DictHit([label |-> "legal", confidence |-> Tenths(6)]),
                             DictHit([label |-> "default", confidence |-> Tenths(7)])>>
      [] text = "t_bad" -> <<StrHit("legal"), StrHit("legal")>>
      [] OTHER -> <<DictHit([score |-> Tenths(6)]),
                    DictHit([label |-> "code", confidence |-> Tenths(6)]),
                    DictHit([label |-> "legal", score |-> Tenths(6)])>>

\* -------------------------------------------------------------------- state
VARIABLES
    DOMAIN_PRESETS,         \* DOMAIN_PRESETS as extractor.py (line 15) and main.py
                            \* (line 20) imported it: <<name, preset>> pairs
    CLASSIFICATION_SCHEMA,  \* CLASSIFICATION_SCHEMA as extractor.py imported it
    settings,               \* config.settings: the two default_* fields
    loadable,               \* whether GLiNER2.from_pretrained succeeds
    _yaml_config,           \* config._yaml_config: the document last loaded
    config_DOMAIN_PRESETS,  \* the global DOMAIN_PRESETS of config.py
    config_CLASSIFICATION_SCHEMA,   \* the global CLASSIFICATION_SCHEMA of config.py
    reloaded,               \* the documents that reloads have replaced, oldest first
    _extractor,             \* extractor._extractor: 0 for None, or the number of
                            \* the GLiNERExtractor object it names
    _model,                 \* the GLiNERExtractor objects whose _model is not None
    built,                  \* how many GLiNERExtractor objects were constructed
    pretrained,             \* how many times GLiNER2.from_pretrained has returned
    users,                  \* the position of each concurrent first user
    pc,                     \* "idle", "batch_extract", "returned" or "raised"
    op,                     \* the operation called and its arguments
    be,                     \* the frame of the running batch_extract
    auto,                   \* the frame of the running auto-domain pipeline
    ret,                    \* the value returned
    calls                   \* the capability invocations of the call, in order

vars == <<DOMAIN_PRESETS, CLASSIFICATION_SCHEMA, settings, loadable, _yaml_config,
          config_DOMAIN_PRESETS, config_CLASSIFICATION_SCHEMA, reloaded,
          _extractor, _model, built, pretrained, users,
          pc, op, be, auto, ret, calls>>

config_vars == <<DOMAIN_PRESETS, CLASSIFICATION_SCHEMA, settings, loadable, _yaml_config,
                 config_DOMAIN_PRESETS, config_CLASSIFICATION_SCHEMA, reloaded>>

\* The singleton and its model.
handle_vars == <<_extractor, _model, built, pretrained, users>>

\* ------------------------------------------- extractor.py: preset registry
\* domain in DOMAIN_PRESETS
HasPreset(domain) == \E i \in 1..Len(DOMAIN_PRESETS) : DOMAIN_PRESETS[i][1] = domain

\* DOMAIN_PRESETS[domain]
PresetOf(domain) ==
    DOMAIN_PRESETS[CHOOSE i \in 1..Len(DOMAIN_PRESETS) : DOMAIN_PRESETS[i][1] = domain][2]

RECURSIVE merge_presets(_, _, _)
\* get_preset_schema, lines 350-354: the loop over the domains.
merge_presets(domains, entity_types, relation_types) ==
    IF domains = <<>> THEN <<entity_types, relation_types>>
    ELSE IF HasPreset(Head(domains))
         THEN merge_presets(Tail(domains),
                            entity_types \cup PresetOf(Head(domains)).entity_types,
                            DictUpdate(relation_types, PresetOf(Head(domains)).relation_types))
         ELSE merge_presets(Tail(domains), entity_types, relation_types)

\* The merge with its loop starting one domain late (for domain in
\* domains[1:]).
get_preset_schema_from_second(domains) ==
    LET merged == merge_presets(SubSeq(domains, 2, Len(domains)), {}, EmptyDict)
    IN  IF merged[1] = {}
        THEN <<Val(settings.default_entity_types), Val(settings.default_relation_types)>>
        ELSE merged

\* get_preset_schema: <<entity_types, relation_types>>, the entity types as
\* the set the returned list is built from.
get_preset_schema(domains) ==
    LET merged == merge_presets(domains, {}, EmptyDict)
    IN  IF merged[1] = {}
        THEN <<Val(settings.default_entity_types), Val(settings.default_relation_types)>>
        ELSE merged

RECURSIVE merge_all_presets(_, _, _)
\* get_all_domains_schema, lines 533-535: the loop over DOMAIN_PRESETS.items().
merge_all_presets(presets, entity_types, relation_types) ==
    IF presets = <<>> THEN <<entity_types, relation_types>>
    ELSE merge_all_presets(Tail(presets),
                           entity_types \cup Head(presets)[2].entity_types,
                           DictUpdate(relation_types, Head(presets)[2].relation_types))

\* get_all_domains_schema: every preset merged, then the defaults added
\* (`default_entity_types or []`, `if settings.default_relation_types`).
get_all_domains_schema ==
    LET merged == merge_all_presets(DOMAIN_PRESETS, {}, EmptyDict)
        default_entity_types ==
            IF IsNone(settings.default_entity_types) THEN {}
            ELSE Val(settings.default_entity_types)
        default_relation_types ==
            IF IsNone(settings.default_relation_types) THEN EmptyDict
            ELSE Val(settings.default_relation_types)
    IN  <<merged[1] \cup default_entity_types, DictUpdate(merged[2], default_relation_types)>>

\* ------------------------------------- extractor.py: domain classification
\* One invocation of the capability, as the call log records it.
Invocation(fn, texts, schema, raised) ==
    [fn |-> fn, texts |-> texts, schema |-> schema, raised |-> raised]

\* create_schema().classification("domains", domain_labels, ...)
ClassificationSchemaOf(threshold) ==
    [labels |-> [i \in 1..Len(CLASSIFICATION_SCHEMA.domains) |->
                    CLASSIFICATION_SCHEMA.domains[i][1]],
     cls_threshold |-> threshold]

\* The label of a hit is one of the domain_labels the schema was built with
\* (a hit without a label passes).
LabelInSchema(hit) ==
    LET labels == {CLASSIFICATION_SCHEMA.domains[i][1] :
                        i \in 1..Len(CLASSIFICATION_SCHEMA.domains)}
    IN  CASE hit.kind = "str" -> hit.s \in labels
          [] hit.kind = "dict" -> "label" \in DOMAIN hit.f => hit.f.label \in labels
          [] OTHER -> TRUE

\* classification("domains", domain_labels, cls_threshold=threshold): the
\* classifier scores the labels of its schema, and reports a hit that
\* carries a confidence only when that confidence exceeds the threshold.
ClassifierReports(hit, threshold) ==
    /\ LabelInSchema(hit)
    /\ \/ hit.kind # "dict"
       \/ IsNone(GetOpt2(hit.f, "confidence", "score"))
       \/ Val(GetOpt2(hit.f, "confidence", "score")) > threshold

\* The raw classification result of a text: {"domains": [...]}, with "of"
\* the ghost field naming the text.
ClassifierRaw(text, threshold) ==
    LET reports(hit) == ClassifierReports(hit, threshold)
    IN  [of |-> text, domains |-> ListOf(SelectSeq(ClassifierHits(text), reports))]

\* self.model.extract(text, schema) with a classification schema, line 207.
model_classify(text, threshold) ==
    IF text = "t_err" THEN [raised |-> TRUE]
    ELSE [raised |-> FALSE, raw |-> ClassifierRaw(text, threshold)]

\* self.model.batch_extract(batch, schema) with a classification schema,
\* line 268, when it returns.
model_batch_classify(batch, threshold) ==
    [j \in 1..Len(batch) |-> ClassifierRaw(batch[j], threshold)]

\* An unstable insertion: x put before the entries of its own confidence.
InsertBeforeEqual(s, x) ==
    LET n == Cardinality({i \in 1..Len(s) : s[i].confidence > x.confidence})
    IN  SubSeq(s, 1, n) \o <<x>> \o SubSeq(s, n + 1, Len(s))

\* s with x put after every entry whose confidence is at least x's.
InsertByConfidence(s, x) ==
    LET n == Cardinality({i \in 1..Len(s) : s[i].confidence >= x.confidence})
    IN  SubSeq(s, 1, n) \o <<x>> \o SubSeq(s, n + 1, Len(s))

RECURSIVE SortLoop(_, _)
SortLoop(rest, acc) ==
    IF rest = <<>> THEN acc ELSE SortLoop(Tail(rest), InsertByConfidence(acc, Head(rest)))

\* sorted(detected, key=lambda x: -x.get("confidence", 0)): a stable sort.
sorted_by_confidence(detected) == SortLoop(detected, <<>>)

\* classify_domains, lines 211-225: the hits of a raw result as
\* {label, confidence} entries.
classify_detected(result, threshold) ==
    LET domains_result == Get(result, "domains", ListOf(<<>>))
        known(item) == item.kind \in {"dict", "str"}
        items == IF domains_result.kind = "list"
                 THEN SelectSeq(domains_result.items, known) ELSE <<>>
    IN  [i \in 1..Len(items) |->
            IF items[i].kind = "dict"
            THEN [label |-> GetOpt(items[i].f, "label"),
                  confidence |-> Get(items[i].f, "confidence", Get(items[i].f, "score", 0))]
            ELSE [label |-> Some(items[i].s), confidence |-> threshold]]

\* classify_domains_batch, lines 276-290: the same, for one result of a batch.
classify_batch_detected(result, threshold) ==
    LET domains_result == Get(result, "domains", ListOf(<<>>))
        known(item) == item.kind \in {"dict", "str"}
        items == IF domains_result.kind = "list"
                 THEN SelectSeq(domains_result.items, known) ELSE <<>>
    IN  [i \in 1..Len(items) |->
            IF items[i].kind = "dict"
            THEN [label |-> GetOpt(items[i].f, "label"),
                  confidence |-> Get(items[i].f, "confidence", Get(items[i].f, "score", 0))]
            ELSE [label |-> Some(items[i].s), confidence |-> threshold]]

\* _classify_domains_heuristic: the domains of CLASSIFICATION_KEYWORDS, in
\* order, and the number of keywords of each.
CLASSIFICATION_KEYWORDS ==
    << <<"ecommerce", 13>>, <<"code", 14>>, <<"documentation", 9>>, <<"legal", 10>> >>

\* sum(1 for kw in keywords if kw in text_lower): the keywords of a domain
\* that occur in a text.
KeywordHits(text, domain) ==
    CASE text = "t_err" /\ domain = "ecommerce" -> 7
      [] text = "t_err" /\ domain = "documentation" -> 3
      [] text = "t_err" /\ domain = "legal" -> 6
      [] text = "t_ok" /\ domain = "legal" -> 3
      [] text = "t_bad" /\ domain = "code" -> 14
      [] OTHER -> 0

\* _classify_domains_heuristic, lines 322-333: the detections in the order
\* of CLASSIFICATION_KEYWORDS.
heuristic_detected(text, threshold) ==
    LET score(i) == KeywordHits(text, CLASSIFICATION_KEYWORDS[i][1])
                        * (ConfScale \div CLASSIFICATION_KEYWORDS[i][2])
        hit(i) == score(i) > threshold
        kept == SelectSeq([i \in 1..Len(CLASSIFICATION_KEYWORDS) |-> i], hit)
    IN  [k \in 1..Len(kept) |->
            [label |-> Some(CLASSIFICATION_KEYWORDS[kept[k]][1]),
             confidence |-> Min(score(kept[k]) * 2, ConfScale)]]

\* _classify_domains_heuristic.
_classify_domains_heuristic(text, threshold) ==
    sorted_by_confidence(heuristic_detected(text, threshold))

\* classify_domains: the sorted detections and the capability invocations
\* made.  Any exception of the capability path leads to the heuristic.
classify_domains(text, threshold) ==
    IF ~loadable
    THEN [v |-> _classify_domains_heuristic(text, threshold), calls |-> <<>>]
    ELSE LET got == model_classify(text, threshold)
             call == Invocation("extract", <<text>>, ClassificationSchemaOf(threshold),
                                got.raised)
         IN  IF got.raised
             THEN [v |-> _classify_domains_heuristic(text, threshold), calls |-> <<call>>]
             ELSE [v |-> sorted_by_confidence(classify_detected(got.raw, threshold)),
                   calls |-> <<call>>]

\* A chunking that leaves out a last chunk shorter than step.
ChunkStartsWhole(n, step) == [k \in 1..(n \div step) |-> (k - 1) * step]

\* range(0, n, step) for step > 0: the start offsets of the chunks.
ChunkStarts(n, step) == [k \in 1..((n + step - 1) \div step) |-> (k - 1) * step]

\* texts[i:]: the slice without its upper limit.
ChunkToEnd(texts, i, batch_size) == SubSeq(texts, i + 1, Len(texts))

\* texts[i:i + batch_size]
Chunk(texts, i, batch_size) == SubSeq(texts, i + 1, Min(i + batch_size, Len(texts)))

\* classify_domains_batch, lines 299: the sequential fallback.
classify_sequentially(texts, threshold) ==
    [v |-> [i \in 1..Len(texts) |-> classify_domains(texts[i], threshold).v],
     calls |-> Concat([i \in 1..Len(texts) |-> classify_domains(texts[i], threshold).calls])]

\* A fallback that keeps the outputs of the chunks that succeeded and
\* classifies one by one only the texts from the failed chunk on.
classify_domains_batch_keep_done(texts, threshold, batch_size, fail_chunk) ==
    IF texts = <<>> THEN [v |-> <<>>, calls |-> <<>>]
    ELSE IF ~loadable \/ batch_size = 0
    THEN classify_sequentially(texts, threshold)
    ELSE LET starts == IF batch_size > 0 THEN ChunkStarts(Len(texts), batch_size) ELSE <<>>
             schema == ClassificationSchemaOf(threshold)
             failed == fail_chunk \in 1..Len(starts)
             made == IF failed THEN fail_chunk ELSE Len(starts)
             log == [k \in 1..made |->
                        Invocation("batch_extract", Chunk(texts, starts[k], batch_size),
                                   schema, failed /\ k = fail_chunk)]
             done == IF failed THEN starts[fail_chunk] ELSE Len(texts)
             batch_results == model_batch_classify(SubSeq(texts, 1, done), threshold)
             rest == classify_sequentially(SubSeq(texts, done + 1, Len(texts)), threshold)
         IN  [v |-> [i \in 1..Len(batch_results) |->
                        sorted_by_confidence(
                            classify_batch_detected(batch_results[i], threshold))] \o rest.v,
              calls |-> log \o rest.calls]

\* classify_domains_batch.  fail_chunk is the chunk whose capability call
\* raises (0: none does).
classify_domains_batch(texts, threshold, batch_size, fail_chunk) ==
    IF texts = <<>> THEN [v |-> <<>>, calls |-> <<>>]
    ELSE IF ~loadable \/ batch_size = 0
    THEN classify_sequentially(texts, threshold)
    ELSE LET starts == IF batch_size > 0 THEN ChunkStarts(Len(texts), batch_size) ELSE <<>>
             schema == ClassificationSchemaOf(threshold)
             failed == fail_chunk \in 1..Len(starts)
             made == IF failed THEN fail_chunk ELSE Len(starts)
             log == [k \in 1..made |->
                        Invocation("batch_extract", Chunk(texts, starts[k], batch_size),
                                   schema, failed /\ k = fail_chunk)]
             batch_results ==
                 Concat([k \in 1..Len(starts) |->
                     model_batch_classify(Chunk(texts, starts[k], batch_size), threshold)])
         IN  IF failed
             THEN [v |-> classify_sequentially(texts, threshold).v,
                   calls |-> log \o classify_sequentially(texts, threshold).calls]
             ELSE [v |-> [i \in 1..Len(batch_results) |->
                            sorted_by_confidence(
                                classify_batch_detected(batch_results[i], threshold))],
                   calls |-> log]

\* ------------------------------------------------ extractor.py: extraction
\* create_schema().entities(entity_types), with .relations(relation_types)
\* when relation_types is not empty.
SchemaOf(entity_types, relation_types) ==
    [entities |-> entity_types,
     relations |-> IF relation_types # EmptyDict THEN Some(relation_types) ELSE None]

\* entity_types if entity_types is not None else settings.default_entity_types
OrDefaultEntityTypes(entity_types) ==
    IF IsNone(entity_types) THEN Val(settings.default_entity_types) ELSE Val(entity_types)

\* relation_types if relation_types is not None else settings.default_relation_types
OrDefaultRelationTypes(relation_types) ==
    IF IsNone(relation_types) THEN Val(settings.default_relation_types)
    ELSE Val(relation_types)

\* extract without the try/except of lines 89-94: an exception of
\* self.model.extract escapes.
extract_uncaught(text, entity_types, relation_types, include_confidence, include_spans) ==
    IF ~loadable THEN [raised |-> TRUE, calls |-> <<>>]
    ELSE LET got == model_extract(text)
             call == Invocation("extract", <<text>>,
                                SchemaOf(OrDefaultEntityTypes(entity_types),
                                         OrDefaultRelationTypes(relation_types)),
                                got.raised)
             norm == extract_normalize(got.raw, include_confidence, include_spans)
         IN  IF got.raised \/ norm.raised THEN [raised |-> TRUE, calls |-> <<call>>]
             ELSE [raised |-> FALSE, v |-> norm.v, calls |-> <<call>>]

\* extract: the ExtractionResult or the exception that escapes, and the
\* capability invocations made.  Loading the model and building the schema
\* (line 80) are outside the try; an exception of self.model.extract is
\* caught and gives the empty raw result.
extract(text, entity_types, relation_types, include_confidence, include_spans) ==
    IF ~loadable THEN [raised |-> TRUE, calls |-> <<>>]
    ELSE LET got == model_extract(text)
             raw_result == IF got.raised
                           THEN [of |-> text, entities |-> <<>>, relation_extraction |-> <<>>]
                           ELSE got.raw
             norm == extract_normalize(raw_result, include_confidence, include_spans)
             call == Invocation("extract", <<text>>,
                                SchemaOf(OrDefaultEntityTypes(entity_types),
                                         OrDefaultRelationTypes(relation_types)),
                                got.raised)
         IN  IF norm.raised THEN [raised |-> TRUE, calls |-> <<call>>]
             ELSE [raised |-> FALSE, v |-> norm.v, calls |-> <<call>>]

\* batch_extract, lines 386-400: the frame of the call before its loop, or
\* the exception of loading the model and building the schema (line 395) or
\* of range() with a zero step (line 403).
batch_extract_enter(texts, entity_types, relation_types, batch_size, include_confidence, include_spans) ==
    IF ~loadable \/ batch_size = 0 THEN [raised |-> TRUE]
    ELSE [raised |-> FALSE,
          frame |-> [texts |-> texts,
                     entity_types |-> OrDefaultEntityTypes(entity_types),
                     relation_types |-> OrDefaultRelationTypes(relation_types),
                     batch_size |-> batch_size,
                     include_confidence |-> include_confidence,
                     include_spans |-> include_spans,
                     i |-> 0,
                     results |-> <<>>]]

\* for i in range(0, len(texts), batch_size): whether the loop is over.
batch_extract_done(frame) == frame.batch_size < 0 \/ frame.i >= Len(frame.texts)

\* The fallback trying every text a second time: each text is submitted
\* twice to the capability.
fallback_sequential_retry(batch, entity_types, relation_types, include_confidence, include_spans) ==
    [j \in 1..Len(batch) |->
        LET first == extract(batch[j], Some(entity_types), Some(relation_types),
                             include_confidence, include_spans)
        IN  [first EXCEPT !.calls = @ \o @]]

\* The fallback calling extract without the two include_* flags, which then
\* take their defaults (True, True).
fallback_sequential_default_flags(batch, entity_types, relation_types, include_confidence, include_spans) ==
    [j \in 1..Len(batch) |->
        extract(batch[j], Some(entity_types), Some(relation_types), TRUE, TRUE)]

\* batch_extract, lines 422-430: the single-text extraction of every text of
\* the batch.
fallback_sequential(batch, entity_types, relation_types, include_confidence, include_spans) ==
    [j \in 1..Len(batch) |->
        extract(batch[j], Some(entity_types), Some(relation_types),
                include_confidence, include_spans)]

\* The least element of a non-empty set of numbers.
Least(S) == CHOOSE x \in S : \A y \in S : x <= y

\* batch_extract, lines 404-430: one iteration of the loop.  The results
\* appended to `results`, the invocations made, and whether an exception
\* escapes (one raised by extract during the fallback).
batch_extract_chunk(frame, batch_raises) ==
    LET batch == Chunk(frame.texts, frame.i, frame.batch_size)
        schema == SchemaOf(frame.entity_types, frame.relation_types)
        batch_results == model_batch_extract(batch)
        parsed == [j \in 1..Len(batch_results) |->
            _parse_extraction_result(batch_results[j], frame.include_confidence,
                                     frame.include_spans)]
        bad == {j \in 1..Len(parsed) : parsed[j].raised}
        \* the results appended before the first parse that raises
        appended == IF batch_raises THEN <<>>
                    ELSE [j \in 1..(IF bad = {} THEN Len(parsed) ELSE Least(bad) - 1) |->
                            parsed[j].v]
        fails == batch_raises \/ bad # {}
        fb == fallback_sequential(batch, frame.entity_types, frame.relation_types,
                                  frame.include_confidence, frame.include_spans)
        fbbad == {j \in 1..Len(fb) : fb[j].raised}
        fbmade == IF fbbad = {} THEN Len(fb) ELSE Least(fbbad)
        call == Invocation("batch_extract", batch, schema, batch_raises)
    IN  IF ~fails
        THEN [raised |-> FALSE, results |-> appended, calls |-> <<call>>]
        ELSE [raised |-> fbbad # {},
              results |-> appended \o [j \in 1..(IF fbbad = {} THEN Len(fb) ELSE 0) |-> fb[j].v],
              calls |-> <<call>> \o Concat([j \in 1..fbmade |-> fb[j].calls])]

\* ------------------------------------- extractor.py: auto-domain pipeline
\* The labels the classifier can report, in string order.
LabelOrder == <<"code", "default", "documentation", "ecommerce", "legal">>
LabelRank(label) == CHOOSE i \in 1..Len(LabelOrder) : LabelOrder[i] = label

\* s with label x put after every label that is not greater.
InsertLabel(s, x) ==
    LET n == Cardinality({i \in 1..Len(s) : LabelRank(s[i]) <= LabelRank(x)})
    IN  SubSeq(s, 1, n) \o <<x>> \o SubSeq(s, n + 1, Len(s))

RECURSIVE SortLabels(_, _)
SortLabels(rest, acc) ==
    IF rest = <<>> THEN acc ELSE SortLabels(Tail(rest), InsertLabel(acc, Head(rest)))

\* The slice taken from the other end: the last max_domains entries.
TruncateFromEnd(domains, max_domains) ==
    SubSeq(domains, Len(domains) - Min(max_domains, Len(domains)) + 1, Len(domains))

\* domains[:max_domains], for max_domains >= 0
Truncate(domains, max_domains) == SubSeq(domains, 1, Min(max_domains, Len(domains)))

\* lines 617-619: the grouping key of one text's classifications.
domain_key(domains) ==
    LET labelled(d) == ~IsNone(d.label) /\ Val(d.label) # ""
        kept == SelectSeq(domains, labelled)
        domain_labels == [i \in 1..Len(kept) |-> Val(kept[i].label)]
    IN  IF domain_labels # <<>> THEN SortLabels(domain_labels, <<>>) ELSE <<"default">>

RECURSIVE group_texts(_, _, _, _)
\* lines 615-620: batches[domain_key].append((idx, text)) for the texts from
\* position idx on; `batches` keeps the keys in the order they first appear.
group_texts(texts, classifications, idx, batches) ==
    IF idx > Min(Len(texts), Len(classifications)) THEN batches
    ELSE LET key == domain_key(classifications[idx])
             at == {g \in 1..Len(batches) : batches[g].key = key}
             entry == <<idx, texts[idx]>>
         IN  group_texts(texts, classifications, idx + 1,
                IF at = {}
                THEN Append(batches, [key |-> key, indexed_texts |-> <<entry>>])
                ELSE [batches EXCEPT ![Least(at)].indexed_texts = Append(@, entry)])

\* lines 629-633: the schema of a group.
group_schema(key) ==
    IF key = <<"default">>
    THEN <<Val(settings.default_entity_types), Val(settings.default_relation_types)>>
    ELSE get_preset_schema(key)

\* lines 636-644: the batch_extract call of group g.
auto_enter_group(frame, g) ==
    LET group == frame.batches[g]
        schema == group_schema(group.key)
    IN  batch_extract_enter([k \in 1..Len(group.indexed_texts) |-> group.indexed_texts[k][2]],
                            Some(schema[1]), Some(schema[2]), frame.batch_size,
                            frame.include_confidence, frame.include_spans)

\* lines 647-648: results[orig_idx] = result over zip(indexed_texts, batch_results).
scatter(results, indexed_texts, batch_results) ==
    LET m == Min(Len(indexed_texts), Len(batch_results))
        written == {indexed_texts[k][1] : k \in 1..m}
        last(idx) == CHOOSE k \in 1..m :
                        /\ indexed_texts[k][1] = idx
                        /\ \A l \in 1..m : indexed_texts[l][1] = idx => l <= k
    IN  [idx \in (DOMAIN results) \cup written |->
            IF idx \in written THEN batch_results[last(idx)] ELSE results[idx]]

\* line 654: [results[i] for i in range(len(texts))], or its KeyError.
gather(results, n) ==
    IF \A i \in 1..n : i \in DOMAIN results
    THEN [raised |-> FALSE, v |-> [i \in 1..n |-> results[i]]]
    ELSE [raised |-> TRUE]

\* batch_extract_with_auto_domains, lines 609-625: classification, truncation
\* and grouping.
auto_enter(texts, batch_size, domain_threshold, max_domains, include_confidence, include_spans, fail_chunk) ==
    LET cls == classify_domains_batch(texts, domain_threshold, batch_size * 2, fail_chunk)
        classifications == [i \in 1..Len(cls.v) |-> Truncate(cls.v[i], max_domains)]
    IN  [texts |-> texts,
         batch_size |-> batch_size,
         include_confidence |-> include_confidence,
         include_spans |-> include_spans,
         classifications |-> classifications,
         batches |-> group_texts(texts, classifications, 1, <<>>),
         g |-> 1,
         results |-> EmptyDict,
         calls |-> cls.calls]

\* ------------------------------------------------------------------- inputs
TextLists == SeqsUpTo(Texts, MaxTexts)
\* batch_size: the routes /extract/auto and /extract/all do not validate it.
BatchSizes == (0 - 1)..MaxBatchSize
Thresholds == {Tenths(3), Tenths(5)}
\* max_domains: int = 3
max_domains_default == 3
MaxDomainsArgs == {0, 1, max_domains_default}
\* entity_types and relation_types as a caller passes them.
SchemaArgs ==
    {<<None, None>>, <<Some({"person", "organization"}), Some(EmptyDict)>>}
DomainNames == {"legal", "code", "notes", "unknown"}
DomainLists == SeqsUpTo(DomainNames, MaxDomainList)

\* The concurrent first users of the extractor.
Users == 1..MaxUsers

\* ------------------------------------------------------------ initial state
\* Settings(): no default_* field is set from the environment.
Settings == [default_entity_types |-> None, default_relation_types |-> None]

\* config.py, lines 165-171 (and 187-191): the defaults of the YAML document
\* fill the default_* fields that are still None.
with_yaml_defaults(s, yaml_config) ==
    [default_entity_types |->
        IF IsNone(s.default_entity_types)
        THEN Some(get_defaults_from_yaml(yaml_config)[1]) ELSE s.default_entity_types,
     default_relation_types |->
        IF IsNone(s.default_relation_types)
        THEN Some(get_defaults_from_yaml(yaml_config)[2]) ELSE s.default_relation_types]

\* The frames and results of no call.
Idle ==
    /\ pc = "idle"
    /\ op = [name |-> "none"]
    /\ be = <<>>
    /\ auto = <<>>
    /\ ret = <<>>
    /\ calls = <<>>

\* Import of config.py (lines 149-171) with the YAML document `doc` on disk,
\* and of extractor.py (line 658): nothing loaded, no call running.
Boot(doc) ==
    /\ _yaml_config = load_yaml_config(doc)
    /\ config_DOMAIN_PRESETS = build_domain_presets(load_yaml_config(doc))
    /\ config_CLASSIFICATION_SCHEMA = build_classification_schema(load_yaml_config(doc))
    /\ DOMAIN_PRESETS = build_domain_presets(load_yaml_config(doc))
    /\ CLASSIFICATION_SCHEMA = build_classification_schema(load_yaml_config(doc))
    /\ settings = with_yaml_defaults(Settings, load_yaml_config(doc))
    /\ reloaded = <<>>
    /\ _extractor = 0
    /\ _model = {}
    /\ built = 0
    /\ pretrained = 0
    /\ users = [u \in Users |-> [pc |-> "start", self |-> 0]]
    /\ Idle

Init == \E doc \in YamlConfigs : Boot(doc) /\ loadable \in BOOLEAN

\* ------------------------------------------------------------------ actions
\* extractor = get_extractor() at the head of a route handler, which runs to
\* its end without yielding: the singleton, constructed if there is none;
\* and, when the call reads extractor.model (loads), the model loaded if it
\* is not and can be.
UseExtractor(loads) ==
    LET self == IF _extractor = 0 THEN built + 1 ELSE _extractor
    IN  /\ _extractor' = self
        /\ built' = IF _extractor = 0 THEN built + 1 ELSE built
        /\ _model' = IF loads /\ loadable THEN _model \cup {self} ELSE _model
        /\ pretrained' = IF loads /\ loadable /\ self \notin _model
                         THEN pretrained + 1 ELSE pretrained
        /\ users' = users

\* A call that ends at once: its value, or the exception that escapes.
Finish(call, outcome, loads) ==
    /\ op' = call
    /\ pc' = IF outcome.raised THEN "raised" ELSE "returned"
    /\ ret' = IF outcome.raised THEN <<>> ELSE outcome.v
    /\ calls' = outcome.calls
    /\ be' = <<>>
    /\ auto' = <<>>
    /\ UseExtractor(loads)
    /\ UNCHANGED config_vars

\* get_preset_schema(domains)
GetPresetSchema ==
    /\ pc = "idle"
    /\ \E domains \in DomainLists :
        /\ op' = [name |-> "get_preset_schema", domains |-> domains]
        /\ pc' = "returned"
        /\ ret' = get_preset_schema(domains)
    /\ UNCHANGED <<config_vars, handle_vars, be, auto, calls>>

\* get_all_domains_schema()
GetAllDomainsSchema ==
    /\ pc = "idle"
    /\ op' = [name |-> "get_all_domains_schema"]
    /\ pc' = "returned"
    /\ ret' = get_all_domains_schema
    /\ UNCHANGED <<config_vars, handle_vars, be, auto, calls>>

\* extract(text, entity_types, relation_types, include_confidence, include_spans)
Extract ==
    /\ pc = "idle"
    /\ \E text \in Texts, schema \in SchemaArgs, include_confidence \in BOOLEAN, include_spans \in BOOLEAN :
        Finish([name |-> "extract", text |-> text, entity_types |-> schema[1],
                relation_types |-> schema[2], include_confidence |-> include_confidence,
                include_spans |-> include_spans],
               extract(text, schema[1], schema[2], include_confidence, include_spans),
               TRUE)

\* classify_domains(text, threshold)
ClassifyDomains ==
    /\ pc = "idle"
    /\ \E text \in Texts, threshold \in Thresholds :
        Finish([name |-> "classify_domains", text |-> text, threshold |-> threshold],
               [raised |-> FALSE] @@ classify_domains(text, threshold),
               TRUE)

\* classify_domains_batch(texts, threshold, batch_size)
ClassifyDomainsBatch ==
    /\ pc = "idle"
    /\ \E texts \in TextLists, threshold \in Thresholds, batch_size \in BatchSizes, fail_chunk \in 0..MaxTexts :
        /\ fail_chunk = 0 \/ (batch_size > 0 /\ fail_chunk <= Len(ChunkStarts(Len(texts), batch_size)))
        /\ Finish([name |-> "classify_domains_batch", texts |-> texts,
                   threshold |-> threshold, batch_size |-> batch_size],
                  [raised |-> FALSE]
                      @@ classify_domains_batch(texts, threshold, batch_size, fail_chunk),
                  texts # <<>>)

\* batch_extract(texts, entity_types, relation_types, batch_size,
\* include_confidence, include_spans), up to its loop.
BatchExtract ==
    /\ pc = "idle"
    /\ \E texts \in TextLists, schema \in SchemaArgs, batch_size \in BatchSizes, include_confidence \in BOOLEAN, include_spans \in BOOLEAN :
        LET entered == batch_extract_enter(texts, schema[1], schema[2], batch_size,
                                           include_confidence, include_spans)
        IN  /\ op' = [name |-> "batch_extract", texts |-> texts,
                      entity_types |-> schema[1], relation_types |-> schema[2],
                      batch_size |-> batch_size,
                      include_confidence |-> include_confidence,
                      include_spans |-> include_spans]
            /\ pc' = IF entered.raised THEN "raised" ELSE "batch_extract"
            /\ be' = IF entered.raised THEN <<>> ELSE entered.frame
    /\ UseExtractor(TRUE)
    /\ calls' = <<>>
    /\ UNCHANGED <<config_vars, auto, ret>>

\* One iteration of the loop of batch_extract: the capability's batch call
\* on the next chunk returns or raises.
BatchExtractChunk ==
    /\ pc = "batch_extract"
    /\ ~batch_extract_done(be)
    /\ \E batch_raises \in BOOLEAN :
        LET step == batch_extract_chunk(be, batch_raises)
        IN  /\ calls' = calls \o step.calls
            /\ IF step.raised
               THEN pc' = "raised" /\ be' = <<>> /\ auto' = <<>>
               ELSE /\ pc' = pc
                    /\ be' = [be EXCEPT !.results = @ \o step.results,
                                        !.i = @ + be.batch_size]
                    /\ auto' = auto
    /\ UNCHANGED <<config_vars, handle_vars, op, ret>>

\* batch_extract returns to the caller of the service.
BatchExtractReturn ==
    /\ pc = "batch_extract"
    /\ batch_extract_done(be)
    /\ auto = <<>>
    /\ pc' = "returned"
    /\ ret' = be.results
    /\ be' = <<>>
    /\ UNCHANGED <<config_vars, handle_vars, op, auto, calls>>

\* The auto-domain pipeline from group g on: the batch_extract call of the
\* group, or, after the last group, the results in input order.
AutoContinue(frame) ==
    IF frame.g > Len(frame.batches)
    THEN LET gathered == gather(frame.results, Len(frame.texts))
         IN  /\ pc' = IF gathered.raised THEN "raised" ELSE "returned"
             /\ ret' = IF gathered.raised THEN <<>> ELSE gathered.v
             /\ be' = <<>>
             /\ auto' = <<>>
    ELSE LET entered == auto_enter_group(frame, frame.g)
         IN  /\ pc' = IF entered.raised THEN "raised" ELSE "batch_extract"
             /\ ret' = <<>>
             /\ be' = IF entered.raised THEN <<>> ELSE entered.frame
             /\ auto' = IF entered.raised THEN <<>> ELSE frame

\* batch_extract_with_auto_domains(texts, batch_size, domain_threshold,
\* max_domains, include_confidence, include_spans), up to the batch_extract
\* call of the first group.
BatchExtractWithAutoDomains ==
    /\ pc = "idle"
    /\ \E texts \in TextLists, batch_size \in BatchSizes, domain_threshold \in Thresholds, max_domains \in MaxDomainsArgs, include_confidence \in BOOLEAN, include_spans \in BOOLEAN, fail_chunk \in 0..MaxTexts :
        /\ fail_chunk = 0 \/ (batch_size > 0 /\ fail_chunk <= Len(ChunkStarts(Len(texts), batch_size * 2)))
        /\ LET frame == auto_enter(texts, batch_size, domain_threshold, max_domains,
                                   include_confidence, include_spans, fail_chunk)
           IN  /\ op' = [name |-> "batch_extract_with_auto_domains", texts |-> texts,
                         batch_size |-> batch_size,
                         domain_threshold |-> domain_threshold,
                         max_domains |-> max_domains,
                         include_confidence |-> include_confidence,
                         include_spans |-> include_spans]
               /\ calls' = frame.calls
               /\ AutoContinue(frame)
               /\ UseExtractor(texts # <<>>)
    /\ UNCHANGED config_vars

\* batch_extract returns to the auto-domain pipeline, which scatters the
\* group's results and goes on to the next group.
AutoGroupDone ==
    /\ pc = "batch_extract"
    /\ batch_extract_done(be)
    /\ auto # <<>>
    /\ AutoContinue([auto EXCEPT
            !.results = scatter(@, auto.batches[auto.g].indexed_texts, be.results),
            !.g = @ + 1])
    /\ UNCHANGED <<config_vars, handle_vars, op, calls>>

\* config.get_available_domains(): list(DOMAIN_PRESETS.keys()) over the
\* global of config.py.
get_available_domains ==
    [i \in 1..Len(config_DOMAIN_PRESETS) |-> config_DOMAIN_PRESETS[i][1]]

\* main.list_domains: for every available domain, the entity types and the
\* relation names of DOMAIN_PRESETS.get(domain_name, {}), DOMAIN_PRESETS being
\* the name main.py imported.
list_domains ==
    [i \in 1..Len(get_available_domains) |->
        LET domain_name == get_available_domains[i]
        IN  <<domain_name,
              [entity_types |-> IF HasPreset(domain_name)
                                THEN PresetOf(domain_name).entity_types ELSE {},
               relation_types |-> IF HasPreset(domain_name)
                                  THEN DOMAIN PresetOf(domain_name).relation_types
                                  ELSE {}]>>]

\* reload_config(), as the handler of /config/reload runs it, with the
\* document `doc` on disk: the globals of config.py are rebound, the names
\* imported by extractor.py and main.py are not, and the default_* settings
\* change only if they are still None.
ReloadConfig ==
    /\ pc = "idle"
    /\ Len(reloaded) < MaxReloads
    /\ \E doc \in YamlConfigs :
        /\ _yaml_config' = load_yaml_config(doc)
        /\ config_DOMAIN_PRESETS' = build_domain_presets(load_yaml_config(doc))
        /\ config_CLASSIFICATION_SCHEMA' = build_classification_schema(load_yaml_config(doc))
        /\ settings' = with_yaml_defaults(settings, load_yaml_config(doc))
    /\ reloaded' = Append(reloaded, _yaml_config)
    /\ op' = [name |-> "reload_config"]
    /\ pc' = "returned"
    /\ ret' = [i \in 1..Len(config_DOMAIN_PRESETS') |-> config_DOMAIN_PRESETS'[i][1]]
    /\ UNCHANGED <<DOMAIN_PRESETS, CLASSIFICATION_SCHEMA, loadable, handle_vars, be, auto, calls>>

\* GET /domains
ListDomains ==
    /\ pc = "idle"
    /\ op' = [name |-> "list_domains"]
    /\ pc' = "returned"
    /\ ret' = list_domains
    /\ UNCHANGED <<config_vars, handle_vars, be, auto, calls>>

\* A first user u of the extractor runs `get_extractor().model` on a thread
\* of its own.  Nothing in extractor.py serialises the users: each step below
\* is one read or one write of the shared names.
StepUser(u, next_pc, self) == users' = [users EXCEPT ![u] = [pc |-> next_pc, self |-> self]]

\* get_extractor, line 664: if _extractor is None
GetExtractorTest ==
    \E u \in Users :
        /\ users[u].pc = "start"
        /\ StepUser(u, IF _extractor = 0 THEN "construct" ELSE "return", 0)
        /\ UNCHANGED <<config_vars, _extractor, _model, built, pretrained, pc, op, be, auto, ret, calls>>

\* get_extractor, line 665: _extractor = GLiNERExtractor()
GetExtractorCreate ==
    \E u \in Users :
        /\ users[u].pc = "construct"
        /\ built' = built + 1
        /\ _extractor' = built + 1
        /\ StepUser(u, "return", 0)
        /\ UNCHANGED <<config_vars, _model, pretrained, pc, op, be, auto, ret, calls>>

\* get_extractor, line 666: return _extractor
GetExtractorReturn ==
    \E u \in Users :
        /\ users[u].pc = "return"
        /\ StepUser(u, "model", _extractor)
        /\ UNCHANGED <<config_vars, _extractor, _model, built, pretrained, pc, op, be, auto, ret, calls>>

\* model, line 43: if self._model is None
ModelTest ==
    \E u \in Users :
        /\ users[u].pc = "model"
        /\ StepUser(u, IF users[u].self \in _model THEN "done" ELSE "load", users[u].self)
        /\ UNCHANGED <<config_vars, _extractor, _model, built, pretrained, pc, op, be, auto, ret, calls>>

\* model, lines 45-46: self._model = GLiNER2.from_pretrained(...), or its
\* exception.
ModelLoad ==
    \E u \in Users :
        /\ users[u].pc = "load"
        /\ _model' = IF loadable THEN _model \cup {users[u].self} ELSE _model
        /\ pretrained' = IF loadable THEN pretrained + 1 ELSE pretrained
        /\ StepUser(u, "done", users[u].self)
        /\ UNCHANGED <<config_vars, _extractor, built, pc, op, be, auto, ret, calls>>

\* The caller has its answer; the service takes the next call.
Return ==
    /\ pc \in {"returned", "raised"}
    /\ pc' = "idle"
    /\ op' = [name |-> "none"]
    /\ be' = <<>>
    /\ auto' = <<>>
    /\ ret' = <<>>
    /\ calls' = <<>>
    /\ UNCHANGED <<config_vars, handle_vars>>

Next ==
    \/ GetPresetSchema
    \/ Extract
    \/ ClassifyDomains
    \/ ClassifyDomainsBatch
    \/ BatchExtract
    \/ BatchExtractChunk
    \/ BatchExtractReturn
    \/ BatchExtractWithAutoDomains
    \/ AutoGroupDone
    \/ ReloadConfig
    \/ ListDomains
    \/ GetExtractorTest
    \/ GetExtractorCreate
    \/ GetExtractorReturn
    \/ ModelTest
    \/ ModelLoad
    \/ GetAllDomainsSchema
    \/ Return

Spec == Init /\ [][Next]_vars

\* The preset registry alone, under every configuration.
NextRegistry == GetPresetSchema \/ GetAllDomainsSchema \/ Return
SpecRegistry == Init /\ [][NextRegistry]_vars

\* The typical configuration, the model loading or not.
InitTypical == Boot(YamlTypical) /\ loadable \in BOOLEAN

\* The domain classifier alone.
NextClassify == ClassifyDomains \/ ClassifyDomainsBatch \/ Return
SpecClassify == InitTypical /\ [][NextClassify]_vars

\* Single-text and fixed-schema batch extraction.
NextExtract == Extract \/ BatchExtract \/ BatchExtractChunk \/ BatchExtractReturn \/ Return
SpecExtract == InitTypical /\ [][NextExtract]_vars

\* Reloads of the configuration and the operations that read it.
NextReload == ReloadConfig \/ ListDomains \/ GetPresetSchema \/ ClassifyDomains \/ Return
SpecReload == Init /\ [][NextReload]_vars

\* Concurrent first uses of the extractor.
NextFirstUse ==
    \/ GetExtractorTest
    \/ GetExtractorCreate
    \/ GetExtractorReturn
    \/ ModelTest
    \/ ModelLoad
SpecFirstUse == Init /\ [][NextFirstUse]_vars

\* The three extraction operations under the typical configuration.
NextPipeline ==
    \/ Extract
    \/ BatchExtract
    \/ BatchExtractChunk
    \/ BatchExtractReturn
    \/ BatchExtractWithAutoDomains
    \/ AutoGroupDone
    \/ Return
SpecPipeline == InitTypical /\ [][NextPipeline]_vars

\* batch_extract_with_auto_domains called with the flags of its signature
\* (include_confidence=True, include_spans=True).
AutoWithDefaultFlags ==
    /\ BatchExtractWithAutoDomains
    /\ op'.include_confidence
    /\ op'.include_spans

\* The loop of batch_extract has a chunk left: BatchExtractChunk is enabled.
ChunkPending == pc = "batch_extract" /\ ~batch_extract_done(be)

\* A group of the auto-domain pipeline has its results: AutoGroupDone is
\* enabled.
GroupPending == pc = "batch_extract" /\ batch_extract_done(be) /\ auto # <<>>

\* The batched operations, each call running on to its end: the thread of a
\* call takes its next step whenever it has one, the capability returning
\* or raising at every invocation.  The fairness of BatchExtractChunk and of
\* AutoGroupDone is weak fairness with the enabling condition written out
\* (ChunkPending, GroupPending).
NextBatched ==
    \/ ClassifyDomainsBatch
    \/ BatchExtract
    \/ BatchExtractChunk
    \/ BatchExtractReturn
    \/ AutoWithDefaultFlags
    \/ AutoGroupDone
    \/ Return
SpecBatched ==
    /\ InitTypical
    /\ [][NextBatched]_vars
    /\ ([]<>(~ChunkPending) \/ []<><<BatchExtractChunk>>_vars)
    /\ ([]<>(~GroupPending) \/ []<><<AutoGroupDone>>_vars)
    /\ WF_vars(BatchExtractReturn)

\* The auto-domain pipeline.
InitAuto == (Boot(YamlTypical) \/ Boot(YamlEdge)) /\ loadable \in BOOLEAN
NextAuto == BatchExtractWithAutoDomains \/ BatchExtractChunk \/ AutoGroupDone \/ Return
SpecAuto == InitAuto /\ [][NextAuto]_vars

\* The auto-domain pipeline under a configuration with a domain named
\* "default".
InitNamed == Boot(YamlDefaultNamed) /\ loadable \in BOOLEAN
NextNamed == AutoWithDefaultFlags \/ BatchExtractChunk \/ AutoGroupDone \/ Return
SpecNamed == InitNamed /\ [][NextNamed]_vars

\* The auto-domain pipeline under the typical configuration, called with the
\* flags of its signature.
SpecGroups == InitTypical /\ [][NextNamed]_vars

\* --------------------------------------------------------------- properties
\* The call of operation `name` has returned a value.
ReturnedFrom(name) == pc = "returned" /\ op.name = name

\* The value returned has one result per input text, and result i was made
\* from texts[i].
OnePerTextInOrder ==
    /\ Len(ret) = Len(op.texts)
    /\ \A i \in 1..Len(op.texts) : ret[i].of = op.texts[i]

\* C1: batch_extract_with_auto_domains returns exactly one result per input
\* text, and result i is the extraction of texts[i], whatever the
\* classification and however the texts are grouped.
C1_AutoOnePerTextInOrder ==
    ReturnedFrom("batch_extract_with_auto_domains") => OnePerTextInOrder

\* C2: batch_extract returns exactly one result per input text, result i
\* being the extraction of texts[i], for every pattern of chunk outcomes
\* (here for every batch_size of at least 1), a parse error after a
\* successful batch call included.
C2_BatchOnePerTextInOrder ==
    (ReturnedFrom("batch_extract") /\ op.batch_size >= 1) => OnePerTextInOrder

\* The capability's batch call was made on every chunk of the input and
\* raised each time.
EveryChunkRaised ==
    LET isbatch(c) == c.fn = "batch_extract"
        batch_calls == SelectSeq(calls, isbatch)
    IN  /\ \A k \in 1..Len(batch_calls) : batch_calls[k].raised
        /\ Concat([k \in 1..Len(batch_calls) |-> batch_calls[k].texts]) = op.texts

\* extract on text i of the running call, with the call's own arguments.
SingleOf(i) ==
    extract(op.texts[i], op.entity_types, op.relation_types,
            op.include_confidence, op.include_spans)

\* C3: when the capability's batch call raises for every chunk, what
\* batch_extract returns is, text by text, what extract returns for that
\* text with the same entity types, relation types and flags, and the
\* single-text invocations made are those extract makes.
C3_FallbackEqualsSingle ==
    (ReturnedFrom("batch_extract") /\ EveryChunkRaised) =>
        LET issingle(c) == c.fn = "extract"
        IN  /\ Len(ret) = Len(op.texts)
            /\ \A i \in 1..Len(op.texts) : ~SingleOf(i).raised /\ ret[i] = SingleOf(i).v
            /\ SelectSeq(calls, issingle)
                    = Concat([i \in 1..Len(op.texts) |-> SingleOf(i).calls])

\* batch_extract has returned the fallback results of two chunks, for a
\* text whose hits carry spans and a call that asked for none.
C3_Witness ==
    /\ ReturnedFrom("batch_extract")
    /\ EveryChunkRaised
    /\ op.texts = <<"t_ok", "t_hot">>
    /\ op.batch_size = 1
    /\ ~op.include_spans
    /\ ~IsNone(op.entity_types)
    /\ Len(ret) = 2

\* The labels of a (truncated) classification, as a set.
LabelSet(domains) ==
    {Val(domains[k].label) :
        k \in {l \in 1..Len(domains) : ~IsNone(domains[l].label) /\ Val(domains[l].label) # ""}}

\* The group the auto-domain pipeline put text i in.
GroupOf(i) ==
    CHOOSE g \in 1..Len(auto.batches) :
        \E k \in 1..Len(auto.batches[g].indexed_texts) :
            auto.batches[g].indexed_texts[k][1] = i

\* C4: two texts whose classified labels, after truncation, are equal as
\* sets are put in the same group and extracted with the same schema.
C4_SameLabelSetSameGroup ==
    (pc = "batch_extract" /\ auto # <<>>) =>
        \A i, j \in 1..Len(auto.classifications) :
            LabelSet(auto.classifications[i]) = LabelSet(auto.classifications[j]) =>
                /\ GroupOf(i) = GroupOf(j)
                /\ group_schema(auto.batches[GroupOf(i)].key)
                        = group_schema(auto.batches[GroupOf(j)].key)

\* C5: merging the same domain twice gives the schema of merging it once.
C5_MergeIdempotent ==
    (/\ ReturnedFrom("get_preset_schema")
     /\ Len(op.domains) = 2
     /\ op.domains[1] = op.domains[2]) =>
        ret = get_preset_schema(<<op.domains[1]>>)

\* get_preset_schema has returned the merge of a configured domain with
\* itself.
C5_Witness ==
    /\ ReturnedFrom("get_preset_schema")
    /\ op.domains = <<"legal", "legal">>
    /\ HasPreset("legal")
    /\ ret[1] = PresetOf("legal").entity_types
    /\ ret[1] # Val(settings.default_entity_types)

\* C6: get_preset_schema of no domain, or of unknown domains only, returns
\* exactly the configured defaults, and the entity types get_preset_schema
\* returns are never empty.
C6_DefaultsNeverEmpty ==
    ReturnedFrom("get_preset_schema") =>
        /\ (\A k \in 1..Len(op.domains) : ~HasPreset(op.domains[k])) =>
                ret = <<Val(settings.default_entity_types),
                        Val(settings.default_relation_types)>>
        /\ ret[1] # {}

\* The results a returned extraction call hands back.
ResultsReturned == IF op.name = "extract" THEN <<ret>> ELSE ret

\* A returned confidence is absent or lies in [0, 1].
InUnitInterval(confidence) ==
    IsNone(confidence) \/ (0 <= Val(confidence) /\ Val(confidence) <= ConfScale)

\* Every entity and relation of result r has its confidence absent or in
\* [0, 1].
ConfidencesInRange(r) ==
    /\ \A e \in 1..Len(r.entities) : InUnitInterval(r.entities[e].confidence)
    /\ \A e \in 1..Len(r.relations) : InUnitInterval(r.relations[e].confidence)

ExtractionOps == {"extract", "batch_extract", "batch_extract_with_auto_domains"}

\* C7: every entity and relation of every result an extraction operation
\* returns has a confidence that is absent or in [0, 1].
C7_ConfidenceInRange ==
    (pc = "returned" /\ op.name \in ExtractionOps) =>
        \A i \in 1..Len(ResultsReturned) : ConfidencesInRange(ResultsReturned[i])

\* The auto-domain pipeline has returned results with confidences for two
\* texts, one of which the capability's batch call scored above 1.
C7_Witness ==
    /\ ReturnedFrom("batch_extract_with_auto_domains")
    /\ op.include_confidence
    /\ op.texts = <<"t_ok", "t_hot">>
    /\ \E i \in 1..Len(ret) : \E e \in 1..Len(ret[i].relations) :
            ~IsNone(ret[i].relations[e].confidence)
    /\ \E i \in 1..Len(ret) : \E e \in 1..Len(ret[i].entities) :
            ret[i].entities[e].confidence = Some(ConfScale)

\* A confidence outside [0, 1].
OutOfRange(v) == v < 0 \/ v > ConfScale

\* A dict hit whose "score" or "confidence" is outside [0, 1].
HitOutOfRange(item) ==
    /\ item.kind = "dict"
    /\ \E k \in {"score", "confidence"} \cap DOMAIN item.f : OutOfRange(item.f[k])

\* Some entity hit, or some endpoint of a relation pair, of a raw result
\* carries a confidence outside [0, 1].
RawOutOfRange(raw) ==
    \/ \E t \in 1..Len(raw.entities) :
        /\ raw.entities[t][2].kind = "list"
        /\ \E h \in 1..Len(raw.entities[t][2].items) :
                HitOutOfRange(raw.entities[t][2].items[h])
    \/ \E t \in 1..Len(raw.relation_extraction) :
        /\ raw.relation_extraction[t][2].kind = "list"
        /\ \E h \in 1..Len(raw.relation_extraction[t][2].items) :
            LET hit == raw.relation_extraction[t][2].items[h]
            IN  /\ hit.kind = "tuple"
                /\ \E x \in 1..Len(hit.items) : HitOutOfRange(hit.items[x])

\* C8: when the capability reports a confidence outside [0, 1], extract
\* still returns, and the confidences it returns are absent or in [0, 1].
C8_OutOfRangeNormalized ==
    (/\ op.name = "extract"
     /\ pc \in {"returned", "raised"}
     /\ loadable
     /\ ~model_extract(op.text).raised
     /\ RawOutOfRange(model_extract(op.text).raw)) =>
        /\ pc = "returned"
        /\ ConfidencesInRange(ret)

\* C9: when the capability cannot be loaded, no exception escapes
\* batch_extract, batch_extract_with_auto_domains, classify_domains or
\* classify_domains_batch.
C9_NoCapabilityErrorEscapes ==
    (/\ op.name \in {"batch_extract", "batch_extract_with_auto_domains",
                     "classify_domains", "classify_domains_batch"}
     /\ ~loadable) =>
        pc # "raised"

\* C10: every entry classify_domains returns has a confidence strictly above
\* the threshold of the call.
C10_AboveThreshold ==
    ReturnedFrom("classify_domains") =>
        \A i \in 1..Len(ret) : ret[i].confidence > op.threshold

\* L is D sorted by non-increasing confidence, the entries of one
\* confidence in the order they have in D.
StableSortOf(L, D) ==
    /\ Len(L) = Len(D)
    /\ \A i, j \in 1..Len(L) : i < j => L[i].confidence >= L[j].confidence
    /\ \A k \in 1..Len(D) :
        LET same(x) == x.confidence = D[k].confidence
        IN  SelectSeq(L, same) = SelectSeq(D, same)

\* What the underlying classifier of classify_domains reports for a text:
\* the capability's hits, or the keyword detections when the capability is
\* not available.
Reported(text, threshold) ==
    IF ~loadable \/ model_classify(text, threshold).raised
    THEN heuristic_detected(text, threshold)
    ELSE classify_detected(model_classify(text, threshold).raw, threshold)

\* classify_domains_batch answered from its sequential fallback: no
\* classification batch call was made, or one raised.
ClassifyFellBack ==
    LET isbatch(c) == c.fn = "batch_extract"
        batch_calls == SelectSeq(calls, isbatch)
    IN  batch_calls = <<>> \/ \E k \in 1..Len(batch_calls) : batch_calls[k].raised

\* What the underlying classifier reports for text i of a returned
\* classify_domains_batch call.
ReportedAt(i) ==
    IF ClassifyFellBack THEN Reported(op.texts[i], op.threshold)
    ELSE classify_batch_detected(ClassifierRaw(op.texts[i], op.threshold), op.threshold)

\* C11: every list classify_domains returns, and every position of what
\* classify_domains_batch returns, is sorted by non-increasing confidence,
\* entries of equal confidence in the order the underlying classifier
\* reported them.
C11_SortedStable ==
    /\ ReturnedFrom("classify_domains") =>
            StableSortOf(ret, Reported(op.text, op.threshold))
    /\ ReturnedFrom("classify_domains_batch") =>
            \A i \in 1..Len(ret) : StableSortOf(ret[i], ReportedAt(i))

\* classify_domains_batch has returned, from the capability's batch call, a
\* list with two differently labelled entries of one confidence.
C11_Witness ==
    /\ ReturnedFrom("classify_domains_batch")
    /\ ~ClassifyFellBack
    /\ \E i \in 1..Len(ret) : \E a, b \in 1..Len(ret[i]) :
        /\ a < b
        /\ ret[i][a].confidence = ret[i][b].confidence
        /\ ret[i][a].label # ret[i][b].label

\* Some classification batch call of the running call raised.
SomeClassifyChunkRaised ==
    \E k \in 1..Len(calls) : calls[k].fn = "batch_extract" /\ calls[k].raised

\* C12: when the capability call of any classification chunk raises,
\* classify_domains_batch returns, for every input text in input order, what
\* classify_domains returns for it, whatever the chunks before had answered.
C12_FallbackClassifiesAll ==
    (ReturnedFrom("classify_domains_batch") /\ SomeClassifyChunkRaised) =>
        /\ Len(ret) = Len(op.texts)
        /\ \A i \in 1..Len(op.texts) :
                ret[i] = classify_domains(op.texts[i], op.threshold).v

\* classify_domains_batch has returned after its second chunk raised, the
\* first chunk having answered differently from classify_domains.
C12_Witness ==
    /\ ReturnedFrom("classify_domains_batch")
    /\ Len(op.texts) = 2
    /\ op.batch_size = 1
    /\ Len(calls) >= 2
    /\ calls[1].fn = "batch_extract" /\ ~calls[1].raised
    /\ calls[2].fn = "batch_extract" /\ calls[2].raised
    /\ ret[1] # sorted_by_confidence(
                    classify_batch_detected(ClassifierRaw(op.texts[1], op.threshold),
                                            op.threshold))

\* C13: for every batch_size of at least 1, classify_domains_batch returns
\* one classification list per input text, list i being the classification
\* of texts[i]; for no text it returns the empty sequence, whatever the
\* batch_size, without invoking the capability.
C13_ClassifyBatchOnePerText ==
    ReturnedFrom("classify_domains_batch") =>
        /\ op.batch_size >= 1 =>
            /\ Len(ret) = Len(op.texts)
            /\ \A i \in 1..Len(op.texts) : ret[i] = sorted_by_confidence(ReportedAt(i))
        /\ op.texts = <<>> => (ret = <<>> /\ calls = <<>>)

\* classify_domains_batch has returned the answers of two chunks that
\* classify two texts differently.
C13_Witness ==
    /\ ReturnedFrom("classify_domains_batch")
    /\ op.texts = <<"t_hot", "t_ok">>
    /\ op.batch_size = 1
    /\ ~ClassifyFellBack
    /\ Len(calls) = 2
    /\ Len(ret) = 2
    /\ ret[1] # ret[2]

\* What list_domains answers when the domain names and the presets both
\* come from the document doc.
ListDomainsOf(doc) ==
    LET presets == build_domain_presets(load_yaml_config(doc))
    IN  [i \in 1..Len(presets) |->
            <<presets[i][1],
              [entity_types |-> presets[i][2].entity_types,
               relation_types |-> DOMAIN presets[i][2].relation_types]>>]

\* The documents loaded so far: the one in force and those reloads replaced.
Loaded == {_yaml_config} \cup {reloaded[k] : k \in 1..Len(reloaded)}

\* C14: what a reader of the configuration observes is entirely the
\* configuration of one load, the one before a reload or the one after it
\* (here for list_domains, run when no reload is in progress).
C14_ReaderSeesOneLoad ==
    ReturnedFrom("list_domains") => \E doc \in Loaded : ret = ListDomainsOf(doc)

\* The schema of one domain under the document in force.
FreshSchemaOf(domain) ==
    LET presets == build_domain_presets(_yaml_config)
        at == {i \in 1..Len(presets) : presets[i][1] = domain}
        defaults == get_defaults_from_yaml(_yaml_config)
    IN  IF at # {} /\ presets[Least(at)][2].entity_types # {}
        THEN <<presets[Least(at)][2].entity_types, presets[Least(at)][2].relation_types>>
        ELSE <<defaults[1], defaults[2]>>

\* The classification labels of the document in force.
FreshLabels ==
    LET schema == build_classification_schema(_yaml_config)
    IN  [i \in 1..Len(schema.domains) |-> schema.domains[i][1]]

\* C15: after a reload, get_preset_schema merges the presets and defaults of
\* the newly loaded configuration, and classify_domains submits its
\* classification labels.
C15_PipelineUsesReloaded ==
    reloaded # <<>> =>
        /\ (ReturnedFrom("get_preset_schema") /\ Len(op.domains) = 1) =>
                ret = FreshSchemaOf(op.domains[1])
        /\ (ReturnedFrom("classify_domains") /\ calls # <<>>) =>
                calls[1].schema.labels = FreshLabels

\* C16: however concurrent first uses of get_extractor and of the model
\* interleave, GLiNERExtractor is constructed at most once and the model is
\* loaded at most once.
C16_InitializedOnce == built <= 1 /\ pretrained <= 1

\* The preset of a configured domain says enabled: false.
Disabled(domain) == HasPreset(domain) /\ ~PresetOf(domain).enabled

\* The presets whose domain is enabled, in file order.
EnabledPresets == SelectSeq(DOMAIN_PRESETS, LAMBDA p : p[2].enabled)

\* The requested domains without the disabled ones.
EnabledAmong(domains) == SelectSeq(domains, LAMBDA d : ~Disabled(d))

\* C17: a domain configured with enabled: false contributes nothing to the
\* schema of get_preset_schema(domains), nor to the schema of
\* get_all_domains_schema: each is the schema the enabled domains alone give.
C17_DisabledExcluded ==
    /\ ReturnedFrom("get_preset_schema") =>
            ret = get_preset_schema(EnabledAmong(op.domains))
    /\ ReturnedFrom("get_all_domains_schema") =>
            LET merged == merge_all_presets(EnabledPresets, {}, EmptyDict)
            IN  /\ ret[1] = merged[1] \cup Val(settings.default_entity_types)
                /\ ret[2] = DictUpdate(merged[2], Val(settings.default_relation_types))

\* The capability's batch invocations of the running call, in the order made.
BatchCalls == SelectSeq(calls, LAMBDA c : c.fn = "batch_extract")

\* The position in the call log of the k-th batch invocation.
BatchCallAt(k) ==
    CHOOSE p \in 1..Len(calls) :
        /\ calls[p].fn = "batch_extract"
        /\ Cardinality({q \in 1..p : calls[q].fn = "batch_extract"}) = k

\* The invocations made after the k-th batch invocation and before the next
\* one (or up to now, for the last).
AfterBatchCall(k) ==
    SubSeq(calls, BatchCallAt(k) + 1,
           IF k < Len(BatchCalls) THEN BatchCallAt(k + 1) - 1 ELSE Len(calls))

\* Chunk k of the running call: texts (k-1)*batch_size+1 .. k*batch_size.
KthChunk(k) ==
    SubSeq(op.texts, (k - 1) * op.batch_size + 1, Min(k * op.batch_size, Len(op.texts)))

\* The number of chunks of the running call.
NumChunks == (Len(op.texts) + op.batch_size - 1) \div op.batch_size

\* batch_extract with a batch size of at least 1 is between two chunks, or
\* has returned.
BetweenChunks ==
    /\ op.name = "batch_extract"
    /\ pc \in {"batch_extract", "returned"}
    /\ op.batch_size >= 1

\* C18: with batch_size >= 1, the batch invocations of batch_extract are, in
\* order, one per contiguous chunk of at most batch_size texts, all of them
\* once the call has returned; and what lies between the invocation of chunk
\* k and that of chunk k+1 is nothing (the batch results were collected) or
\* the single-text invocation of every text of chunk k, in order (the
\* complete fallback), with a result collected for every text of the chunks
\* already invoked.
C18_OneBatchCallPerChunkInOrder ==
    BetweenChunks =>
        /\ Len(BatchCalls) <= NumChunks
        /\ pc = "returned" => Len(BatchCalls) = NumChunks
        /\ \A k \in 1..Len(BatchCalls) :
            /\ BatchCalls[k].texts = KthChunk(k)
            /\ Len(KthChunk(k)) \in 1..op.batch_size
            /\ \/ AfterBatchCall(k) = <<>>
               \/ /\ Len(AfterBatchCall(k)) = Len(KthChunk(k))
                  /\ \A j \in 1..Len(KthChunk(k)) :
                        /\ AfterBatchCall(k)[j].fn = "extract"
                        /\ AfterBatchCall(k)[j].texts = <<KthChunk(k)[j]>>
        /\ pc = "batch_extract" =>
            /\ be.i = Len(BatchCalls) * op.batch_size
            /\ Len(be.results) >= Min(be.i, Len(op.texts))

\* batch_extract has returned after two chunks of one text each: the batch
\* invocation of the first raised and its text was extracted alone before
\* the batch invocation of the second, which returned.
C18_Witness ==
    /\ ReturnedFrom("batch_extract")
    /\ op.batch_size = 1
    /\ Len(op.texts) = 2
    /\ Len(calls) = 3
    /\ calls[1].fn = "batch_extract" /\ calls[1].raised
    /\ calls[2].fn = "extract" /\ calls[2].texts = <<op.texts[1]>>
    /\ calls[3].fn = "batch_extract" /\ calls[3].texts = <<op.texts[2]>>

\* The single-text invocations of the running call that raised, as positions
\* of the call log.
SingleCallsRaised == {p \in 1..Len(calls) : calls[p].fn = "extract" /\ calls[p].raised}

\* The results hold one without entities and relations for the text.
HasEmptyResultOf(results, text) ==
    \E i \in 1..Len(results) :
        /\ results[i].of = text
        /\ results[i].entities = <<>>
        /\ results[i].relations = <<>>

\* C19: when the capability's single-text extraction raises for an item
\* during the sequential fallback of a chunk, batch_extract does not return:
\* the call aborts with the error.
C19_SingleFailureAborts ==
    (op.name = "batch_extract" /\ SingleCallsRaised # {}) => pc # "returned"

\* C19, amended: when the capability's single-text extraction raises for an
\* item during the sequential fallback of a chunk, extract catches the
\* failure; the call does not abort at that item, and the item's result is
\* collected with no entities and no relations.
C19_SingleFailureGivesEmptyResult ==
    op.name = "batch_extract" =>
        \A p \in SingleCallsRaised :
            /\ ~(pc = "raised" /\ p = Len(calls))
            /\ pc = "batch_extract" => HasEmptyResultOf(be.results, calls[p].texts[1])
            /\ pc = "returned" => HasEmptyResultOf(ret, calls[p].texts[1])

\* batch_extract has returned two results after a fallback whose first
\* single-text invocation raised and whose second one returned.
C19_Witness ==
    /\ ReturnedFrom("batch_extract")
    /\ op.batch_size = 2
    /\ Len(op.texts) = 2
    /\ Len(calls) = 3
    /\ calls[2].fn = "extract" /\ calls[2].raised
    /\ calls[3].fn = "extract" /\ ~calls[3].raised
    /\ Len(ret) = 2
    /\ ret[1].entities = <<>>
    /\ ret[2].entities # <<>>

\* The single-text invocations of the running call, in the order made.
SingleCalls == SelectSeq(calls, LAMBDA c : c.fn = "extract")

\* s is t with elements left out: every element of s is matched, in order,
\* with a position of t of its own.
RECURSIVE IsSubsequence(_, _)
IsSubsequence(s, t) ==
    IF s = <<>> THEN TRUE
    ELSE IF t = <<>> THEN FALSE
    ELSE IF Head(s) = Head(t) THEN IsSubsequence(Tail(s), Tail(t))
    ELSE IsSubsequence(s, Tail(t))

\* Within one batch_extract call, every text (position of the input) went
\* at most once into a batch invocation and at most once into a single-text
\* invocation.
SubmittedAtMostOnce ==
    op.name = "batch_extract" =>
        /\ IsSubsequence(Concat([k \in 1..Len(BatchCalls) |-> BatchCalls[k].texts]), op.texts)
        /\ \A k \in 1..Len(SingleCalls) : Len(SingleCalls[k].texts) = 1
        /\ IsSubsequence([k \in 1..Len(SingleCalls) |-> SingleCalls[k].texts[1]], op.texts)

\* A call is running; it has returned or raised.
CallRunning == pc = "batch_extract"
CallEnded == pc \in {"returned", "raised"}

\* C20: every batch_extract, classify_domains_batch and
\* batch_extract_with_auto_domains call, once running, eventually returns or
\* raises (the capability returning or raising at every invocation), and
\* within one batch_extract call each text is submitted at most once inside
\* a batch invocation and at most once as a single-text invocation.
C20_TerminatesWithoutRetry == [](SubmittedAtMostOnce) /\ (CallRunning ~> CallEnded)

\* batch_extract has returned after its batch invocation raised and both
\* texts of the chunk were extracted one by one.
C20_Witness ==
    /\ ReturnedFrom("batch_extract")
    /\ Len(op.texts) = 2
    /\ op.batch_size = 2
    /\ Len(BatchCalls) = 1 /\ BatchCalls[1].raised
    /\ Len(SingleCalls) = 2
    /\ Len(ret) = 2

\* The labels of a (truncated) classification, sorted as the group key
\* sorts them.
SortedLabelsOf(domains) ==
    LET labelled == SelectSeq(domains, LAMBDA d : ~IsNone(d.label) /\ Val(d.label) # "")
    IN  SortLabels([k \in 1..Len(labelled) |-> Val(labelled[k].label)], <<>>)

\* C21: the group being extracted by the auto-domain pipeline runs with the
\* process-wide defaults when its texts have no detected domain, and with
\* the registry merge over the detected labels of its texts otherwise,
\* whatever the labels are named.
C21_DefaultOnlyWithoutDomains ==
    (pc = "batch_extract" /\ auto # <<>>) =>
        \A k \in 1..Len(auto.batches[auto.g].indexed_texts) :
            LET domains == auto.classifications[auto.batches[auto.g].indexed_texts[k][1]]
            IN  <<be.entity_types, be.relation_types>> =
                    IF SortedLabelsOf(domains) = <<>>
                    THEN <<Val(settings.default_entity_types),
                           Val(settings.default_relation_types)>>
                    ELSE get_preset_schema(SortedLabelsOf(domains))

\* The classification step of the running auto-domain call answered from
\* its sequential fallback.
AutoFellBack ==
    LET batch_calls == SelectSeq(auto.calls, LAMBDA c : c.fn = "batch_extract")
    IN  batch_calls = <<>> \/ \E k \in 1..Len(batch_calls) : batch_calls[k].raised

\* What the underlying classifier reports for text i of the running
\* auto-domain call.
AutoReportedAt(i) ==
    IF AutoFellBack THEN Reported(op.texts[i], op.domain_threshold)
    ELSE classify_batch_detected(ClassifierRaw(op.texts[i], op.domain_threshold),
                                 op.domain_threshold)

\* How often x occurs in the sequence s.
Occurrences(s, x) == Cardinality({k \in 1..Len(s) : s[k] = x})

\* kept holds m of the detections D, none of D left out having a higher
\* confidence than one that was kept.
HighestOf(kept, D, m) ==
    /\ Len(kept) = Min(m, Len(D))
    /\ \A k \in 1..Len(kept) : Occurrences(kept, kept[k]) <= Occurrences(D, kept[k])
    /\ \A k \in 1..Len(D) :
        Occurrences(kept, D[k]) < Occurrences(D, D[k]) =>
            \A l \in 1..Len(kept) : kept[l].confidence >= D[k].confidence

\* The labels of the group key of text i: none when the key is the marker.
KeyLabels(i) ==
    LET key == auto.batches[GroupOf(i)].key
    IN  IF key = <<"default">> THEN <<>> ELSE key

\* C22: for every max_domains >= 0, the group key of each text of the
\* auto-domain pipeline has at most max_domains labels, and they are the
\* labels, sorted, of the max_domains detections of highest confidence of the
\* text.
C22_KeyOfHighestConfidence ==
    (pc = "batch_extract" /\ auto # <<>> /\ op.max_domains >= 0) =>
        \A i \in 1..Len(auto.classifications) :
            /\ Len(KeyLabels(i)) <= op.max_domains
            /\ HighestOf(auto.classifications[i], AutoReportedAt(i), op.max_domains)
            /\ KeyLabels(i) = SortedLabelsOf(auto.classifications[i])

\* The pipeline is extracting a text whose detections were not reported in
\* the order of their confidence, and of which max_domains = 1 kept the
\* label of one of highest confidence.
C22_Witness ==
    /\ pc = "batch_extract" /\ auto # <<>>
    /\ op.max_domains = 1
    /\ \E i \in 1..Len(auto.classifications) :
        LET D == AutoReportedAt(i)
        IN  /\ \E a, b \in 1..Len(D) : a < b /\ D[a].confidence < D[b].confidence
            /\ \E a \in 1..Len(D) :
                /\ \A b \in 1..Len(D) : D[b].confidence <= D[a].confidence
                /\ KeyLabels(i) = <<Val(D[a].label)>>

\* The raw relation hits the capability has for a text that become
\* relations: tuples of two items or more, and records.
RelationHitsOf(text) ==
    LET raw == model_batch_extract(<<text>>)[1]
        hits == HitsOf(Get(raw, "relation_extraction", <<>>))
    IN  SelectSeq(hits, LAMBDA h : h[2].kind = "dict"
                                    \/ (h[2].kind = "tuple" /\ Len(h[2].items) >= 2))

\* The confidence an endpoint of a relation hit carries, if any.
EndpointConfidence(e) ==
    IF e.kind = "dict" THEN GetOpt2(e.f, "confidence", "score") ELSE None

\* The mean of the two endpoint confidences when both are present.
EndpointMean(subj, obj) ==
    IF ~IsNone(EndpointConfidence(subj)) /\ ~IsNone(EndpointConfidence(obj))
    THEN Some((Val(EndpointConfidence(subj)) + Val(EndpointConfidence(obj))) \div 2)
    ELSE None

\* The resolution order of a tuple-shaped hit: its third element, else the
\* mean of its endpoints, else nothing.
TupleConfidence(item) ==
    IF Len(item.items) > 2 /\ item.items[3].kind # "none"
    THEN Some(item.items[3].v)
    ELSE EndpointMean(item.items[1], item.items[2])

\* The same order applied to a record-shaped hit, which has no third
\* element: the mean of its subject|head and object|tail, else nothing.
RecordConfidenceByEndpoints(item) ==
    EndpointMean(Get(item.f, "subject", Get(item.f, "head", StrHit(""))),
                 Get(item.f, "object", Get(item.f, "tail", StrHit(""))))

\* Every relation of every result returned by extract or batch_extract has
\* the confidence `expected` gives for its raw hit.
RelationConfidencesAre(expected(_)) ==
    (pc = "returned" /\ op.name \in {"extract", "batch_extract"}) =>
        \A r \in 1..Len(ResultsReturned) :
            LET result == ResultsReturned[r]
                hits == RelationHitsOf(result.of)
            IN  /\ Len(result.relations) = Len(hits)
                /\ \A k \in 1..Len(hits) :
                    result.relations[k].confidence =
                        IF op.include_confidence THEN expected(hits[k][2]) ELSE None

\* C23: with include_confidence true the confidence of a relation, tuple- or
\* record-shaped, is the third tuple element if present and non-null,
\* otherwise the mean of the endpoint confidences if both are present,
\* otherwise absent; with include_confidence false it is absent.
C23_RelationConfidenceOrder ==
    LET expected(item) == IF item.kind = "tuple" THEN TupleConfidence(item)
                          ELSE RecordConfidenceByEndpoints(item)
    IN  RelationConfidencesAre(expected)

\* C23, amended: that order holds for the tuple-shaped hits; the confidence
\* of a record-shaped hit is its own score field, else its own confidence
\* field, else absent.
C23_RelationConfidenceByShape ==
    LET expected(item) == IF item.kind = "tuple" THEN TupleConfidence(item)
                          ELSE GetOpt2(item.f, "score", "confidence")
    IN  RelationConfidencesAre(expected)

\* batch_extract has returned, with confidences, the relations of a text
\* whose hits include a triple with endpoint confidences and a record with
\* a confidence of its own.
C23_Witness ==
    /\ ReturnedFrom("batch_extract")
    /\ op.include_confidence
    /\ \E r \in 1..Len(ret) :
        LET hits == RelationHitsOf(ret[r].of)
        IN  /\ Len(ret[r].relations) = Len(hits)
            /\ \E k \in 1..Len(hits) :
                /\ hits[k][2].kind = "tuple"
                /\ Len(hits[k][2].items) > 2
                /\ ~IsNone(EndpointMean(hits[k][2].items[1], hits[k][2].items[2]))
                /\ ret[r].relations[k].confidence = Some(hits[k][2].items[3].v)
            /\ \E k \in 1..Len(hits) :
                /\ hits[k][2].kind = "dict"
                /\ ~IsNone(ret[r].relations[k].confidence)
    /\ \E k \in 1..Len(calls) : calls[k].fn = "batch_extract" /\ ~calls[k].raised

\* The raw results a result for the text can have been normalised from: the
\* one of the capability's batch call, and the one of its single-text call
\* (the empty one extract substitutes when that call raises).
RawResultsFor(text) ==
    {model_batch_extract(<<text>>)[1],
     IF model_extract(text).raised
     THEN [of |-> text, entities |-> <<>>, relation_extraction |-> <<>>]
     ELSE model_extract(text).raw}

\* The <<type, hit>> pairs listed under the 'entities' mapping of a raw
\* result, in order.
EntityHitsOf(raw) == HitsOf(Get(raw, "entities", <<>>))

\* The name of the entity made from a hit: its text, else its name, else
\* its string representation.
NameOfHit(item) ==
    IF item.kind = "dict" /\ "text" \in DOMAIN item.f THEN item.f.text
    ELSE IF item.kind = "dict" /\ "name" \in DOMAIN item.f THEN item.f.name
    ELSE str(item)

\* The entities are the hits of the raw result, one for one and in order,
\* each under its type and with the name of its hit.
EntitiesKeepEveryHit(entities, raw) ==
    /\ Len(entities) = Len(EntityHitsOf(raw))
    /\ \A k \in 1..Len(entities) :
        /\ entities[k].type = EntityHitsOf(raw)[k][1]
        /\ entities[k].name = NameOfHit(EntityHitsOf(raw)[k][2])

\* C24: every result extract or batch_extract returns has exactly one entity
\* per hit listed under the 'entities' mapping of the raw result it was made
\* from, each with the type it was listed under, a hit without text and name
\* appearing under its string representation.
C24_NoEntityHitDropped ==
    (pc = "returned" /\ op.name \in {"extract", "batch_extract"}) =>
        \A r \in 1..Len(ResultsReturned) :
            \E raw \in RawResultsFor(ResultsReturned[r].of) :
                EntitiesKeepEveryHit(ResultsReturned[r].entities, raw)

\* batch_extract has returned, from the batch call, the four entities of a
\* text whose hits include a bare string and a dict with no text and no name.
C24_Witness ==
    /\ ReturnedFrom("batch_extract")
    /\ Len(calls) = 1 /\ ~calls[1].raised
    /\ \E r \in 1..Len(ret) :
        /\ Len(ret[r].entities) = 4
        /\ \E k \in 1..4 : ret[r].entities[k].name = "Bob"
        /\ \E k \in 1..4 : ret[r].entities[k].name = "{...}"
                            /\ ret[r].entities[k].type = "organization"

\* The raw result extract normalises for a text: the capability's, or the
\* empty one when the capability raises.
SingleRawOf(text) ==
    IF model_extract(text).raised
    THEN [of |-> text, entities |-> <<>>, relation_extraction |-> <<>>]
    ELSE model_extract(text).raw

\* The batch call of the running batch_extract answered every chunk and no
\* chunk fell back.
NoFallback == \A k \in 1..Len(calls) : calls[k].fn = "batch_extract" /\ ~calls[k].raised

\* C25: the two normalisations agree.  What extract returns for a text is
\* what _parse_extraction_result makes of the same raw result with the same
\* flags, extract raising exactly when _parse_extraction_result does; and
\* what batch_extract returns from its batch call is, text by text, what the
\* inline normalisation of extract makes of the same raw result.
C25_NormalisationsAgree ==
    /\ (op.name = "extract" /\ pc \in {"returned", "raised"} /\ loadable) =>
            LET parsed == _parse_extraction_result(SingleRawOf(op.text),
                                                   op.include_confidence, op.include_spans)
            IN  /\ parsed.raised <=> pc = "raised"
                /\ pc = "returned" =>
                    /\ ret.entities = parsed.v.entities
                    /\ ret.relations = parsed.v.relations
    /\ (ReturnedFrom("batch_extract") /\ NoFallback) =>
            \A i \in 1..Len(ret) :
                LET inline == extract_normalize(model_batch_extract(<<ret[i].of>>)[1],
                                                op.include_confidence, op.include_spans)
                IN  /\ ~inline.raised
                    /\ ret[i].entities = inline.v.entities
                    /\ ret[i].relations = inline.v.relations

\* extract has returned, with confidences and spans, the entities and
\* relations of a text with hits of every shape, one of them carrying both a
\* score and a confidence.
C25_Witness ==
    /\ ReturnedFrom("extract")
    /\ op.include_confidence /\ op.include_spans
    /\ Len(ret.entities) >= 4
    /\ Len(ret.relations) >= 5
    /\ \E k \in 1..Len(ret.entities) :
        /\ ret.entities[k].confidence = Some(Tenths(8))
        /\ ~IsNone(ret.entities[k].span)

\* C26: for every integer batch_size, zero and negative ones included,
\* batch_extract and batch_extract_with_auto_domains, when they return
\* normally, return as many results as there are input texts.
C26_ReturnsOnePerTextOrRaises ==
    (pc = "returned" /\ op.name \in {"batch_extract", "batch_extract_with_auto_domains"}) =>
        Len(ret) = Len(op.texts)

====
